---- MODULE Spec2Model ----
(***************************************************************************)
(* Model of the realtime frame pipeline of smolvlm-anti-drone:             *)
(*   src/src/applications/video_processor.py  (VideoProcessor)             *)
(*   src/src/applications/anti_drone.py       (AntiDroneSystem)            *)
(*   src/src/utils/metrics.py                 (MetricsTracker)             *)
(*                                                                         *)
(* A frame image is identified by <<g, n>>: the frame read by the capture  *)
(* thread of the g-th start_realtime_stream call when its frame_count was  *)
(* n.  A ThreatAssessment is identified by the frame it assesses.          *)
(***************************************************************************)
EXTENDS Integers, Sequences, FiniteSets, TLC

VARIABLES
    running,         \* self.running (threading.Event)
    frame_queue,     \* self.frame_queue: Seq of [seq, frame]
    result_queue,    \* self.result_queue: Seq of [seq, result]
    capture_thread,  \* self.capture_thread: 0 (None) or the generation of the handle
    process_thread,  \* self.process_thread: 0 (None) or the generation of the handle
    cap,             \* capture threads: g -> [pc, frame_count]
    proc,            \* processing threads: g -> [pc, cb, seq, frame]
    caller,          \* position of the calling thread: idle / join_capture / join_process
    returned,        \* list returned by the latest get_results call
    sys,             \* self.system.metrics: [samples, counters] of the AntiDroneSystem
    error_log,       \* number of "Error processing frame" lines logged by _process_frames
    last_call,       \* outcome of the latest direct process_frame call
    n_returned,      \* direct process_frame calls that returned a ThreatAssessment
    n_raised,        \* direct process_frame calls that raised
    offered,         \* history: frames handed to put_nowait, in order
    accepted,        \* history: frames put_nowait stored, in order
    processed,       \* history: frames handed to process_frame, in order
    failed,          \* history: frames whose process_frame call raised
    published,       \* history: results put on result_queue, in order
    called,          \* history: callback invocations <<seq, frame, result>>, in order
    realtime_processing, \* self.metrics of the VideoProcessor: samples of 'realtime_processing'
    scene_description,   \* _assess_threat: the scene text, a sequence of characters
    detections,          \* _assess_threat: the confidences of the detections, in order
    assessment,          \* _assess_threat: what the call returned
    tracker,             \* a MetricsTracker: its metrics, start_times and counters
    now,                 \* the reading of time.time()
    scopes,              \* the open timer() scopes, innermost first
    ret,                 \* the last call that returned a value, raised or reset, and its outcome
    recorded,            \* history: per name, the samples recorded since the last reset
    incremented,         \* history: per counter, the sum of the deltas since the last reset
    global_metrics,      \* metrics._global_metrics: 0 for None, or the tracker created k-th
    metrics_objects,     \* the MetricsTracker objects get_metrics has created, in order
    global_config,       \* config_loader._global_config: 0 for None, or the loader created k-th
    config_objects,      \* the number of ConfigLoader objects get_config has created
    refs,                \* the caller of the accessors: what it last got, and resets since
    environ,             \* os.environ: a sequence of [key, value], in iteration order
    config_file,         \* what is at config_path: "missing" or the name of a file content
    config,              \* a ConfigLoader: whether it is constructed, and self.config
    cfg_ret,             \* the latest ConfigLoader call and its outcome
    updates,             \* the number of update calls made
    box1,                \* calculate_iou: the first box [x1, y1, x2, y2]
    box2,                \* calculate_iou: the second box
    iou_ret,             \* calculate_iou: what the call returned, a fraction
    nms_results,         \* nms: the detections passed
    nms_threshold,       \* nms: the iou_threshold passed, in hundredths, or None
    nms_keep,            \* nms: what the call returned
    anti_drone_system,   \* rest_api.anti_drone_system: None until startup, then its metrics
    response,            \* the latest request to /api/v1/analyze and its response
    requests             \* the number of requests answered

vars == <<running, frame_queue, result_queue, capture_thread, process_thread,
          cap, proc, caller, returned, sys, error_log, last_call, n_returned,
          n_raised, offered, accepted, processed, failed, published, called,
          realtime_processing, scene_description, detections, assessment,
          tracker, now, scopes, ret, recorded, incremented,
          global_metrics, metrics_objects, global_config, config_objects, refs,
          environ, config_file, config, cfg_ret, updates, box1, box2, iou_ret,
          nms_results, nms_threshold, nms_keep, anti_drone_system, response, requests>>

direct_vars == <<last_call, n_returned, n_raised>>

assess_vars == <<scene_description, detections, assessment>>

\* the state of the library parts, which the realtime pipeline never touches
tracker_vars == <<tracker, now, scopes, ret, recorded, incremented>>

global_vars == <<global_metrics, metrics_objects, global_config, config_objects, refs>>

config_vars == <<environ, config_file, config, cfg_ret, updates>>

iou_vars == <<box1, box2, iou_ret>>

nms_vars == <<nms_results, nms_threshold, nms_keep>>

api_vars == <<anti_drone_system, response, requests>>

lib_vars == <<assess_vars, tracker_vars, global_vars, config_vars, iou_vars, nms_vars, api_vars>>

----------------------------------------------------------------------------
(* Bounds of the model *)

QueueSize == 2       \* queue_size given to the VideoProcessor
MaxFrames == 16      \* frames the source delivers to one capture thread
MaxResults == 3      \* largest max_results given to get_results
MaxCalls == 6        \* direct process_frame calls
MaxStarts == 2       \* start_realtime_stream calls on one VideoProcessor
RestartFrames == 1   \* frames per capture thread when the stream is restarted

\* frame_skip: the default of VideoProcessor.__init__
FrameSkip == 5

Gens == 1..MaxStarts

----------------------------------------------------------------------------
(* MetricsTracker, as far as process_frame uses it: the number of samples  *)
(* per metric and the integer counters (defaultdict: absent reads as 0).   *)

MetricNames == {"total_processing", "detection", "scene_analysis", "processing_time_ms"}
CounterNames == {"frames_processed", "processing_errors"}

MetricsTracker == [samples |-> [n \in MetricNames |-> 0],
                   counters |-> [c \in CounterNames |-> 0]]

record(m, metric_name) == [m EXCEPT !.samples[metric_name] = @ + 1]

increment(m, counter_name) == [m EXCEPT !.counters[counter_name] = @ + 1]

\* leaving a `with metrics.timer(name)` scope: the finally clause records
timer(m, metric_name) == record(m, metric_name)

----------------------------------------------------------------------------
(* AntiDroneSystem.process_frame.  det and vlm are what the detector and   *)
(* the VLM do for this frame: "ok" or the name of the error they raise.    *)

DetOutcomes == {"ok", "DetectionError"}
VlmOutcomes == {"ok", "InferenceError"}

\* mutant: the except clause re-raises without counting
pf_except_uncounted(m, stages, e) ==
    [metrics |-> m, stages |-> stages, outcome |-> "raised", error |-> e]

\* the except clause: count the error and re-raise it
pf_except(m, stages, e) ==
    [metrics |-> increment(m, "processing_errors"),
     stages |-> stages, outcome |-> "raised", error |-> e]

\* mutant: the processing time of a successful call is not recorded
pf_finish_unrecorded(m, stages) ==
    [metrics |-> increment(m, "frames_processed"),
     stages |-> stages, outcome |-> "returned", error |-> "none"]

\* the statements after the timed block, up to the return
pf_finish(m, stages) ==
    [metrics |-> increment(record(m, "processing_time_ms"), "frames_processed"),
     stages |-> stages, outcome |-> "returned", error |-> "none"]

\* mutant: a detector failure does not end the call
process_frame_no_abort(m, det, vlm) ==
    LET s2 == <<"detection", "scene_analysis">>
        m2 == timer(timer(m, "detection"), "scene_analysis")
    IN  IF det # "ok" \/ vlm # "ok"
        THEN pf_except(timer(m2, "total_processing"), s2, IF det # "ok" THEN det ELSE vlm)
        ELSE pf_finish(timer(m2, "total_processing"),
                       s2 \o <<"assess_threat", "recommend_action">>)

process_frame(m, det, vlm) ==
    LET s1 == <<"detection">>
        m1 == timer(m, "detection")
    IN  IF det # "ok"
        THEN pf_except(timer(m1, "total_processing"), s1, det)
        ELSE LET s2 == Append(s1, "scene_analysis")
                 m2 == timer(m1, "scene_analysis")
             IN  IF vlm # "ok"
                 THEN pf_except(timer(m2, "total_processing"), s2, vlm)
                 ELSE LET s4 == s2 \o <<"assess_threat", "recommend_action">>
                      IN  pf_finish(timer(m2, "total_processing"), s4)

----------------------------------------------------------------------------
(* Queue helpers (queue.Queue with maxsize = queue_size) *)

Min(a, b) == IF a < b THEN a ELSE b

Range(s) == {s[i] : i \in DOMAIN s}

Take(s, n) == SubSeq(s, 1, Min(n, Len(s)))

full(q) == Len(q) >= QueueSize

\* mutant: a put that does not look at the capacity
put_nowait_unbounded(q, item) == [raised |-> FALSE, q |-> Append(q, item)]

\* Queue.put_nowait: raises Full when the queue is full, else appends
put_nowait(q, item) ==
    IF full(q) THEN [raised |-> TRUE, q |-> q]
               ELSE [raised |-> FALSE, q |-> Append(q, item)]

\* mutant: the newest item
get_item_newest(q) == q[Len(q)]

\* Queue.get / get_nowait on a non-empty queue: the oldest item
get_item(q) == Head(q)

get_rest(q) == Tail(q)

alive(t) == t.pc \notin {"none", "done"}

NoFrame == <<0, 0>>

----------------------------------------------------------------------------
(* MetricsTracker with the samples it holds.  A dict is a function whose    *)
(* domain is the set of its keys; a sample is an integer; the clock         *)
(* time.time() is the variable now.                                         *)

MaxSamples == 3   \* samples held by one tracker
MaxCount == 6     \* largest value of a counter
MaxClock == 1     \* largest reading of the clock
MaxScopes == 1    \* timer() scopes open at once

SampleNames == {"latency", "counters"}   \* names of metrics and of timers
Counters == {"frames"}                   \* names of counters
Values == {1, 2, 3}                      \* values passed to record
Deltas == {1, 5}                         \* values passed to increment

EmptyDict == [k \in {} |-> 0]

\* d.get(k, default)
dict_get(d, k, default) == IF k \in DOMAIN d THEN d[k] ELSE default

\* d[k] = v
dict_set(d, k, v) == [x \in DOMAIN d \cup {k} |-> IF x = k THEN v ELSE d[x]]

\* del d[k]
dict_del(d, k) == [x \in DOMAIN d \ {k} |-> d[x]]

\* MetricsTracker()
NewTracker == [metrics |-> EmptyDict, start_times |-> EmptyDict, counters |-> EmptyDict]

\* record(metric_name, value): self.metrics is a defaultdict(list)
record_value(t, metric_name, value) ==
    [t EXCEPT !.metrics = dict_set(@, metric_name, Append(dict_get(@, metric_name, <<>>), value))]

\* increment(counter_name, value): self.counters is a defaultdict(int)
increment_by(t, counter_name, value) ==
    [t EXCEPT !.counters = dict_set(@, counter_name, dict_get(@, counter_name, 0) + value)]

start_timer(t, timer_name, time) ==
    [t EXCEPT !.start_times = dict_set(@, timer_name, time)]

\* mutant: the pending start is kept
stop_timer_keeps_start(t, timer_name, time) ==
    IF timer_name \notin DOMAIN t.start_times
    THEN [tracker |-> t, raised |-> "ValueError", value |-> 0]
    ELSE [tracker |-> record_value(t, timer_name, time - t.start_times[timer_name]),
          raised |-> "none",
          value |-> time - t.start_times[timer_name]]

\* stop_timer(timer_name) at the clock reading time: the tracker after the
\* call, the exception raised and the value returned
stop_timer(t, timer_name, time) ==
    IF timer_name \notin DOMAIN t.start_times
    THEN [tracker |-> t, raised |-> "ValueError", value |-> 0]
    ELSE LET elapsed == time - t.start_times[timer_name]
             recorded_t == record_value(t, timer_name, elapsed)
         IN  [tracker |-> [recorded_t EXCEPT !.start_times = dict_del(@, timer_name)],
              raised |-> "none",
              value |-> elapsed]

\* mutant: the sample is recorded after the body, outside any finally
timer_exit_no_finally(t, scope, time, body_raises) ==
    IF body_raises THEN t ELSE record_value(t, scope.metric_name, time - scope.start_time)

\* the finally of timer(metric_name), run when the body is left
timer_exit(t, scope, time, body_raises) ==
    record_value(t, scope.metric_name, time - scope.start_time)

\* mutant: start_times survives
reset_keeps_timers(t) == [NewTracker EXCEPT !.start_times = t.start_times]

\* reset()
reset(t) == NewTracker

RECURSIVE sum(_)
sum(values) == IF values = <<>> THEN 0 ELSE Head(values) + sum(Tail(values))

RECURSIVE insert(_, _)
insert(sorted_values, v) ==
    IF sorted_values = <<>> THEN <<v>>
    ELSE IF v <= Head(sorted_values) THEN <<v>> \o sorted_values
    ELSE <<Head(sorted_values)>> \o insert(Tail(sorted_values), v)

RECURSIVE sorted(_)
sorted(values) ==
    IF values = <<>> THEN <<>> ELSE insert(sorted(Tail(values)), Head(values))

\* statistics.mean, as a fraction
mean(values) == [num |-> sum(values), den |-> Len(values)]

\* statistics.median, as a fraction
median(values) ==
    LET s == sorted(values)
        n == Len(values)
    IN  IF n % 2 = 1 THEN [num |-> s[(n + 1) \div 2], den |-> 1]
        ELSE [num |-> s[n \div 2] + s[n \div 2 + 1], den |-> 2]

\* the sum of the squared deviations from the mean, times n * n
scaled_squares(values) ==
    LET n == Len(values)
    IN  sum([i \in DOMAIN values |-> (n * values[i] - sum(values)) * (n * values[i] - sum(values))])

\* statistics.stdev: the root of the sum of the squared deviations from the
\* mean divided by n - 1; the model keeps the square, as a fraction
stdev(values) ==
    [sq_num |-> scaled_squares(values),
     sq_den |-> Len(values) * Len(values) * (Len(values) - 1)]

\* _percentile(values, percentile)
percentile(values, p) ==
    IF values = <<>> THEN 0
    ELSE LET sorted_values == sorted(values)
             index == (Len(sorted_values) * p) \div 100
         IN  sorted_values[Min(index, Len(sorted_values) - 1) + 1]

\* the dict _compute_summary returns for the list values
summary_of(values) ==
    IF values = <<>> THEN [count |-> 0]
    ELSE [count |-> Len(values),
          mean |-> mean(values),
          median |-> median(values),
          min |-> CHOOSE v \in Range(values) : \A w \in Range(values) : v <= w,
          max |-> CHOOSE v \in Range(values) : \A w \in Range(values) : w <= v,
          stdev |-> IF Len(values) > 1 THEN stdev(values) ELSE [sq_num |-> 0, sq_den |-> 1],
          p95 |-> percentile(values, 95),
          p99 |-> percentile(values, 99)]

\* mutant: the list is looked up as self.metrics[metric_name], which creates it
compute_summary_creating(t, metric_name) ==
    [summary |-> summary_of(dict_get(t.metrics, metric_name, <<>>)),
     tracker |-> [t EXCEPT !.metrics = dict_set(@, metric_name, dict_get(@, metric_name, <<>>))]]

\* _compute_summary(metric_name): the summary, and the tracker after the call
compute_summary(t, metric_name) ==
    [summary |-> summary_of(dict_get(t.metrics, metric_name, <<>>)),
     tracker |-> t]

\* get_summary(metric_name); "" stands for a missing or empty name
get_summary(t, metric_name) ==
    IF metric_name # "" THEN compute_summary(t, metric_name).summary
    ELSE LET summary == [name \in DOMAIN t.metrics |-> compute_summary(t, name).summary]
         IN  IF DOMAIN t.counters # {} THEN dict_set(summary, "counters", t.counters)
             ELSE summary

\* values[start:] of a Python list
slice_from(values, start) ==
    LET first == IF start < 0 THEN (IF Len(values) + start < 0 THEN 0 ELSE Len(values) + start)
                 ELSE Min(start, Len(values))
    IN  SubSeq(values, first + 1, Len(values))

\* get_latest(metric_name, n)
get_latest(t, metric_name, n) ==
    LET values == dict_get(t.metrics, metric_name, <<>>)
    IN  IF values # <<>> THEN slice_from(values, 0 - n) ELSE <<>>

RECURSIVE held(_)
\* the number of samples in the dict of metrics d
held(d) ==
    IF DOMAIN d = {} THEN 0
    ELSE LET k == CHOOSE x \in DOMAIN d : TRUE
         IN  Len(d[k]) + held(dict_del(d, k))

\* the record of a call: its name and arguments, the exception it raised, and
\* what it returned (elapsed of stop_timer and timer, latest of get_latest,
\* summary of get_summary) or, for reset, what it dropped
NoReturn ==
    [op |-> "none", name |-> "", n |-> 0, raised |-> "none", elapsed |-> 0,
     latest |-> <<>>, summary |-> EmptyDict,
     dropped |-> [samples |-> 0, counters |-> {}, timers |-> {}]]

\* a tracker just constructed, nothing called yet
TrackerIdle ==
    /\ tracker = NewTracker
    /\ now = 0
    /\ scopes = <<>>
    /\ ret = NoReturn
    /\ recorded = [name \in SampleNames |-> <<>>]
    /\ incremented = [c \in Counters |-> 0]

\* the caller of get_metrics and get_config before its first call
NoRefs ==
    [metrics |-> 0, metrics_reset |-> FALSE, metrics_gets |-> 0,
     config |-> 0, config_reset |-> FALSE, config_gets |-> 0]

\* the module globals when the modules have been imported
GlobalIdle ==
    /\ global_metrics = 0
    /\ metrics_objects = <<>>
    /\ global_config = 0
    /\ config_objects = 0
    /\ refs = NoRefs

\* a value of the configuration: None, a str, an int, a float, a bool or a dict
None == [kind |-> "None", text |-> <<>>, items |-> {}]

\* no ConfigLoader call made yet
NoConfigCall ==
    [op |-> "none", key_path |-> <<>>, value |-> None, result |-> None, raised |-> "none"]

\* no ConfigLoader constructed, nothing in the environment
ConfigIdle ==
    /\ environ = <<>>
    /\ config_file = "missing"
    /\ config = [state |-> "none", tree |-> {}]
    /\ cfg_ret = NoConfigCall
    /\ updates = 0

NoBox == [x1 |-> 0, y1 |-> 0, x2 |-> 0, y2 |-> 0]

\* the value of iou_ret before calculate_iou has returned
NoIou == [num |-> 0, den |-> 0]

IouIdle ==
    /\ box1 = NoBox
    /\ box2 = NoBox
    /\ iou_ret = NoIou

\* the value of nms_keep before nms has returned
NotRun == [done |-> FALSE, keep |-> <<>>]

\* an absent iou_threshold argument
NoThreshold == [passed |-> FALSE, value |-> 0, configured |-> 45]

NmsIdle ==
    /\ nms_results = <<>>
    /\ nms_threshold = NoThreshold
    /\ nms_keep = NotRun

NoResponse ==
    [content_type |-> <<>>, readable |-> FALSE, det |-> "none", vlm |-> "none",
     status |-> 0, process_frame |-> FALSE]

\* the API module imported, the startup event not yet run
ApiIdle ==
    /\ anti_drone_system = [loaded |-> FALSE, metrics |-> MetricsTracker]
    /\ response = NoResponse
    /\ requests = 0

----------------------------------------------------------------------------
PipelineInit ==
    /\ running = FALSE
    /\ frame_queue = <<>>
    /\ result_queue = <<>>
    /\ capture_thread = 0
    /\ process_thread = 0
    /\ cap = [g \in Gens |-> [pc |-> "none", frame_count |-> 0, exit |-> "none"]]
    /\ proc = [g \in Gens |-> [pc |-> "none", cb |-> FALSE, seq |-> 0, frame |-> NoFrame]]
    /\ caller = "idle"
    /\ returned = <<>>
    /\ sys = MetricsTracker
    /\ error_log = 0
    /\ last_call = [stages |-> <<>>, outcome |-> "none", error |-> "none",
                    det |-> "none", vlm |-> "none"]
    /\ n_returned = 0
    /\ n_raised = 0
    /\ offered = <<>>
    /\ accepted = <<>>
    /\ processed = <<>>
    /\ failed = {}
    /\ published = <<>>
    /\ called = <<>>
    /\ realtime_processing = 0

\* the value of assessment before _assess_threat has returned
NotAssessed == [level |-> "none", confidence |-> 0]

\* no _assess_threat call is under way
AssessIdle ==
    /\ scene_description = <<>>
    /\ detections = <<>>
    /\ assessment = NotAssessed

Init == PipelineInit /\ AssessIdle /\ TrackerIdle /\ GlobalIdle /\ ConfigIdle /\ IouIdle /\ NmsIdle /\ ApiIdle

----------------------------------------------------------------------------
(* The caller: start_realtime_stream, stop_realtime_stream, get_results *)

\* start_realtime_stream(source, callback): cb says whether a callback is passed
start_realtime_stream(cb) ==
    LET g == capture_thread + 1
    IN  /\ caller = "idle"
        /\ g \in Gens
        /\ running' = TRUE
        /\ capture_thread' = g
        /\ cap' = [cap EXCEPT ![g] = [pc |-> "open", frame_count |-> 0, exit |-> "none"]]
        /\ process_thread' = g
        /\ proc' = [proc EXCEPT ![g] = [pc |-> "loop", cb |-> cb, seq |-> 0, frame |-> NoFrame]]
        /\ UNCHANGED <<frame_queue, result_queue, caller, returned, sys, error_log,
                       offered, accepted, processed, failed, published, called,
                       realtime_processing, direct_vars, lib_vars>>

\* stop_realtime_stream, up to the first join
stop_realtime_stream ==
    /\ caller = "idle"
    /\ running' = FALSE
    /\ caller' = "join_capture"
    /\ UNCHANGED <<frame_queue, result_queue, capture_thread, process_thread, cap, proc,
                   returned, sys, error_log, offered, accepted, processed, failed,
                   published, called, realtime_processing, direct_vars, lib_vars>>

\* capture_thread.join(timeout=5): returns when the thread has ended, or when the
\* timeout expires with the thread still alive; skipped for no thread or a dead one
join_capture ==
    /\ caller = "join_capture"
    /\ \/ capture_thread = 0
       \/ capture_thread # 0 /\ ~alive(cap[capture_thread])
       \/ capture_thread # 0 /\ alive(cap[capture_thread])
    /\ caller' = "join_process"
    /\ UNCHANGED <<running, frame_queue, result_queue, capture_thread, process_thread,
                   cap, proc, returned, sys, error_log, offered, accepted, processed,
                   failed, published, called, realtime_processing, direct_vars, lib_vars>>

join_process ==
    /\ caller = "join_process"
    /\ \/ process_thread = 0
       \/ process_thread # 0 /\ ~alive(proc[process_thread])
       \/ process_thread # 0 /\ alive(proc[process_thread])
    /\ caller' = "idle"
    /\ UNCHANGED <<running, frame_queue, result_queue, capture_thread, process_thread,
                   cap, proc, returned, sys, error_log, offered, accepted, processed,
                   failed, published, called, realtime_processing, direct_vars, lib_vars>>

\* the while loop of get_results: pop while the queue is not empty and fewer than
\* max_results results are collected; the sequence number of an entry is dropped
\* mutant: the loop test is off by one
RECURSIVE drain_one_more(_, _, _)
drain_one_more(q, results, max_results) ==
    IF q # <<>> /\ Len(results) <= max_results
    THEN drain_one_more(get_rest(q), Append(results, get_item(q).result), max_results)
    ELSE [q |-> q, results |-> results]

RECURSIVE drain(_, _, _)
drain(q, results, max_results) ==
    IF q # <<>> /\ Len(results) < max_results
    THEN drain(get_rest(q), Append(results, get_item(q).result), max_results)
    ELSE [q |-> q, results |-> results]

get_results(max_results) ==
    /\ caller = "idle"
    /\ LET d == drain(result_queue, <<>>, max_results)
       IN  /\ result_queue' = d.q
           /\ returned' = d.results
    /\ UNCHANGED <<running, frame_queue, capture_thread, process_thread, cap, proc,
                   caller, sys, error_log, offered, accepted, processed, failed,
                   published, called, realtime_processing, direct_vars, lib_vars>>

----------------------------------------------------------------------------
(* _capture_frames(source), the thread of generation g *)

\* cv2.VideoCapture(source) and the isOpened test
capture_open(g, opened) ==
    /\ cap[g].pc = "open"
    /\ cap' = [cap EXCEPT ![g] = IF opened
                                 THEN [@ EXCEPT !.pc = "loop", !.frame_count = 0]
                                 ELSE [@ EXCEPT !.pc = "done", !.exit = "open_failed"]]
    /\ UNCHANGED <<running, frame_queue, result_queue, capture_thread, process_thread,
                   proc, caller, returned, sys, error_log, offered, accepted, processed,
                   failed, published, called, realtime_processing, direct_vars, lib_vars>>

\* the test of `while self.running.is_set()`; leaving the loop releases the source
capture_loop(g) ==
    /\ cap[g].pc = "loop"
    /\ cap' = [cap EXCEPT ![g] = IF running
                                 THEN [@ EXCEPT !.pc = "read"]
                                 ELSE [@ EXCEPT !.pc = "done", !.exit = "stopped"]]
    /\ UNCHANGED <<running, frame_queue, result_queue, capture_thread, process_thread,
                   proc, caller, returned, sys, error_log, offered, accepted, processed,
                   failed, published, called, realtime_processing, direct_vars, lib_vars>>

\* cap.read() failed: warning, break, release
capture_read_failed(g) ==
    /\ cap[g].pc = "read"
    /\ cap' = [cap EXCEPT ![g] = [@ EXCEPT !.pc = "done", !.exit = "read_failed"]]
    /\ UNCHANGED <<running, frame_queue, result_queue, capture_thread, process_thread,
                   proc, caller, returned, sys, error_log, offered, accepted, processed,
                   failed, published, called, realtime_processing, direct_vars, lib_vars>>

\* cap.read() gave a frame: every frame_skip-th frame is offered with put_nowait,
\* whose exception the bare except swallows; then frame_count += 1
capture_read(g) ==
    /\ cap[g].pc = "read"
    /\ cap[g].frame_count < MaxFrames
    /\ LET n == cap[g].frame_count
           item == [seq |-> n, frame |-> <<g, n>>]
           r == put_nowait(frame_queue, item)
       IN  IF n % FrameSkip = 0
           THEN /\ frame_queue' = r.q
                /\ offered' = Append(offered, item.frame)
                /\ accepted' = IF r.raised THEN accepted ELSE Append(accepted, item.frame)
           ELSE UNCHANGED <<frame_queue, offered, accepted>>
    /\ cap' = [cap EXCEPT ![g] = [@ EXCEPT !.pc = "loop", !.frame_count = @ + 1]]
    /\ UNCHANGED <<running, result_queue, capture_thread, process_thread, proc, caller,
                   returned, sys, error_log, processed, failed, published, called,
                   realtime_processing, direct_vars, lib_vars>>

----------------------------------------------------------------------------
(* _process_frames(callback), the thread of generation g *)

\* the test of `while self.running.is_set()`
process_loop(g) ==
    /\ proc[g].pc = "loop"
    /\ proc' = [proc EXCEPT ![g].pc = IF running THEN "get" ELSE "done"]
    /\ UNCHANGED <<running, frame_queue, result_queue, capture_thread, process_thread,
                   cap, caller, returned, sys, error_log, offered, accepted, processed,
                   failed, published, called, realtime_processing, direct_vars, lib_vars>>

\* frame_queue.get(timeout=1) returns the oldest entry
process_get(g) ==
    /\ proc[g].pc = "get"
    /\ frame_queue # <<>>
    /\ proc' = [proc EXCEPT ![g] = [@ EXCEPT !.pc = "process",
                                             !.seq = get_item(frame_queue).seq,
                                             !.frame = get_item(frame_queue).frame]]
    /\ frame_queue' = get_rest(frame_queue)
    /\ UNCHANGED <<running, result_queue, capture_thread, process_thread, cap, caller,
                   returned, sys, error_log, offered, accepted, processed, failed,
                   published, called, realtime_processing, direct_vars, lib_vars>>

\* frame_queue.get(timeout=1) raises Empty after the timeout: continue
process_get_timeout(g) ==
    /\ proc[g].pc = "get"
    /\ frame_queue = <<>>
    /\ proc' = [proc EXCEPT ![g].pc = "loop"]
    /\ UNCHANGED <<running, frame_queue, result_queue, capture_thread, process_thread,
                   cap, caller, returned, sys, error_log, offered, accepted, processed,
                   failed, published, called, realtime_processing, direct_vars, lib_vars>>

\* mutant: the exception ends the thread
after_process_frame_uncaught(outcome) == IF outcome = "returned" THEN "put" ELSE "done"

\* where the thread goes after process_frame: on to the put, or, the exception
\* caught by `except Exception`, back to the loop test
after_process_frame(outcome) == IF outcome = "returned" THEN "put" ELSE "loop"

\* with self.metrics.timer('realtime_processing'): self.system.process_frame(frame)
process_process(g, det, vlm) ==
    /\ proc[g].pc = "process"
    /\ LET r == process_frame(sys, det, vlm)
       IN  /\ sys' = r.metrics
           /\ proc' = [proc EXCEPT ![g].pc = after_process_frame(r.outcome)]
           /\ failed' = IF r.outcome = "raised" THEN failed \cup {proc[g].frame} ELSE failed
           /\ error_log' = IF r.outcome = "raised" THEN error_log + 1 ELSE error_log
    /\ processed' = Append(processed, proc[g].frame)
    /\ realtime_processing' = realtime_processing + 1
    /\ UNCHANGED <<running, frame_queue, result_queue, capture_thread, process_thread,
                   cap, caller, returned, offered, accepted, published, called,
                   direct_vars, lib_vars>>

\* whether result_queue.put(item) can go on: Queue.put blocks while the queue is full
put_ready(q) == ~full(q)

\* self.result_queue.put((frame_count, result)), then logger.info
process_put(g) ==
    /\ proc[g].pc = "put"
    /\ put_ready(result_queue)
    /\ result_queue' = Append(result_queue, [seq |-> proc[g].seq, result |-> proc[g].frame])
    /\ published' = Append(published, proc[g].frame)
    /\ proc' = [proc EXCEPT ![g].pc = IF proc[g].cb THEN "callback" ELSE "loop"]
    /\ UNCHANGED <<running, frame_queue, capture_thread, process_thread, cap, caller,
                   returned, sys, error_log, offered, accepted, processed, failed,
                   called, realtime_processing, direct_vars, lib_vars>>

\* mutant: a cleared run flag is seen before the callback, which is skipped
process_callback_cancellable(g, raises) ==
    /\ proc[g].pc = "callback"
    /\ called' = IF running THEN Append(called, <<proc[g].seq, proc[g].frame, proc[g].frame>>)
                 ELSE called
    /\ error_log' = IF raises THEN error_log + 1 ELSE error_log
    /\ proc' = [proc EXCEPT ![g].pc = IF running THEN "loop" ELSE "done"]
    /\ UNCHANGED <<running, frame_queue, result_queue, capture_thread, process_thread,
                   cap, caller, returned, sys, offered, accepted, processed, failed,
                   published, realtime_processing, direct_vars, lib_vars>>

\* callback(frame_count, frame, result); an exception of it is caught and logged
process_callback(g, raises) ==
    /\ proc[g].pc = "callback"
    /\ called' = Append(called, <<proc[g].seq, proc[g].frame, proc[g].frame>>)
    /\ error_log' = IF raises THEN error_log + 1 ELSE error_log
    /\ proc' = [proc EXCEPT ![g].pc = "loop"]
    /\ UNCHANGED <<running, frame_queue, result_queue, capture_thread, process_thread,
                   cap, caller, returned, sys, offered, accepted, processed, failed,
                   published, realtime_processing, direct_vars, lib_vars>>

----------------------------------------------------------------------------
(* A synchronous caller of AntiDroneSystem.process_frame *)

call_process_frame(det, vlm) ==
    /\ n_returned + n_raised < MaxCalls
    /\ LET r == process_frame(sys, det, vlm)
       IN  /\ sys' = r.metrics
           /\ last_call' = [stages |-> r.stages, outcome |-> r.outcome, error |-> r.error,
                            det |-> det, vlm |-> vlm]
           /\ n_returned' = IF r.outcome = "returned" THEN n_returned + 1 ELSE n_returned
           /\ n_raised' = IF r.outcome = "raised" THEN n_raised + 1 ELSE n_raised
    /\ UNCHANGED <<running, frame_queue, result_queue, capture_thread, process_thread,
                   cap, proc, caller, returned, error_log, offered, accepted, processed,
                   failed, published, called, realtime_processing, lib_vars>>

----------------------------------------------------------------------------
(* AntiDroneSystem._assess_threat.  A text is a sequence of characters, a   *)
(* confidence is in hundredths (0.5 is 50).                                 *)

MaxWords == 2        \* words of a generated scene text
MaxDetections == 6   \* detections of one frame

UpperCase == <<"A", "B", "C", "D", "E", "F", "G", "H", "I", "J", "K", "L", "M",
               "N", "O", "P", "Q", "R", "S", "T", "U", "V", "W", "X", "Y", "Z">>
LowerCase == <<"a", "b", "c", "d", "e", "f", "g", "h", "i", "j", "k", "l", "m",
               "n", "o", "p", "q", "r", "s", "t", "u", "v", "w", "x", "y", "z">>

\* str.lower(), character by character
lower(text) ==
    [i \in DOMAIN text |->
        IF \E k \in DOMAIN UpperCase : UpperCase[k] = text[i]
        THEN LowerCase[CHOOSE k \in DOMAIN UpperCase : UpperCase[k] = text[i]]
        ELSE text[i]]

\* `keyword in text`: keyword is a contiguous part of text
contains(text, keyword) ==
    \E i \in 0..(Len(text) - Len(keyword)) :
        \A j \in DOMAIN keyword : text[i + j] = keyword[j]

\* threat_keywords
threat_keywords(level) ==
    IF level = "CRITICAL" THEN
        <<<<"d", "r", "o", "n", "e">>,
          <<"u", "a", "v">>,
          <<"w", "e", "a", "p", "o", "n">>,
          <<"a", "t", "t", "a", "c", "k">>,
          <<"e", "x", "p", "l", "o", "s", "i", "v", "e">>,
          <<"c", "r", "i", "t", "i", "c", "a", "l", " ", "r", "i", "s", "k">>>>
    ELSE
    IF level = "HIGH" THEN
        <<<<"s", "u", "s", "p", "i", "c", "i", "o", "u", "s">>,
          <<"u", "n", "a", "u", "t", "h", "o", "r", "i", "z", "e", "d">>,
          <<"a", "p", "p", "r", "o", "a", "c", "h", "i", "n", "g">>,
          <<"h", "i", "g", "h", " ", "r", "i", "s", "k">>,
          <<"d", "a", "n", "g", "e", "r">>>>
    ELSE
    IF level = "MEDIUM" THEN
        <<<<"u", "n", "k", "n", "o", "w", "n">>,
          <<"u", "n", "i", "d", "e", "n", "t", "i", "f", "i", "e", "d">>,
          <<"m", "o", "d", "e", "r", "a", "t", "e", " ", "r", "i", "s", "k">>,
          <<"c", "a", "u", "t", "i", "o", "n">>>>
    ELSE
    IF level = "LOW" THEN
        <<<<"c", "l", "e", "a", "r">>,
          <<"s", "a", "f", "e">>,
          <<"n", "o", "r", "m", "a", "l">>,
          <<"l", "o", "w", " ", "r", "i", "s", "k">>,
          <<"n", "o", " ", "t", "h", "r", "e", "a", "t">>>>
    ELSE
        <<>>

\* the order in which the levels are checked
LevelOrder == <<"CRITICAL", "HIGH", "MEDIUM", "LOW">>

\* mutant: the levels are checked from the least severe
LevelOrderAscending == <<"LOW", "MEDIUM", "HIGH", "CRITICAL">>

max_confidence(dets) == CHOOSE c \in Range(dets) : \A d \in Range(dets) : d <= c

\* mutant: the threshold of the detection count is off by one
count_fallback_from_five(dets) ==
    IF Len(dets) >= 5 THEN [level |-> "MEDIUM", confidence |-> 60]
    ELSE IF Len(dets) > 0 THEN [level |-> "LOW", confidence |-> 50]
    ELSE [level |-> "LOW", confidence |-> 30]

\* the default after the keyword loop: by the number of detections
count_fallback(dets) ==
    IF Len(dets) > 5 THEN [level |-> "MEDIUM", confidence |-> 60]
    ELSE IF Len(dets) > 0 THEN [level |-> "LOW", confidence |-> 50]
    ELSE [level |-> "LOW", confidence |-> 30]

\* mutant of the keyword loop
RECURSIVE keyword_loop_ascending(_, _, _)
keyword_loop_ascending(dets, scene_lower, i) ==
    IF i > Len(LevelOrderAscending) THEN count_fallback(dets)
    ELSE IF \E k \in DOMAIN threat_keywords(LevelOrderAscending[i]) :
               contains(scene_lower, threat_keywords(LevelOrderAscending[i])[k])
    THEN [level |-> LevelOrderAscending[i],
          confidence |-> IF dets # <<>> THEN max_confidence(dets) ELSE 50]
    ELSE keyword_loop_ascending(dets, scene_lower, i + 1)

\* the keyword loop from the i-th level on: the first level with a keyword in
\* the text returns, with the largest confidence of the detections or 0.5
RECURSIVE keyword_loop(_, _, _)
keyword_loop(dets, scene_lower, i) ==
    IF i > Len(LevelOrder) THEN count_fallback(dets)
    ELSE IF \E k \in DOMAIN threat_keywords(LevelOrder[i]) :
               contains(scene_lower, threat_keywords(LevelOrder[i])[k])
    THEN [level |-> LevelOrder[i],
          confidence |-> IF dets # <<>> THEN max_confidence(dets) ELSE 50]
    ELSE keyword_loop(dets, scene_lower, i + 1)

assess_threat(dets, scene) == keyword_loop(dets, lower(scene), 1)

\* the words the generated scene texts are made of
Vocabulary == {<<"D", "r", "o", "n", "e">>,
               <<"U", "A", "V">>,
               <<"a", "p", "p", "r", "o", "a", "c", "h", "i", "n", "g", ",">>,
               <<"u", "n", "k", "n", "o", "w", "n">>,
               <<"u", "n", "s", "a", "f", "e">>,
               <<"c", "l", "e", "a", "r", ".">>,
               <<"s", "k", "y">>,
               <<"c", "r", "i", "t", "i", "c", "a", "l">>,
               <<"r", "i", "s", "k">>,
               <<"b", "i", "r", "d", "s">>}

\* texts of the documentation
ExampleTexts == {<<"D", "e", "t", "e", "c", "t", "e", "d", " ", "o", "b", "j", "e", "c", "t", "s", ":", " ", "d", "r", "o", "n", "e", ".", " ", "D", "r", "o", "n", "e", " ", "a", "p", "p", "r", "o", "a", "c", "h", "i", "n", "g", ",", " ", "c", "r", "i", "t", "i", "c", "a", "l", " ", "r", "i", "s", "k", ".">>,
                 <<"a", "l", "l", " ", "c", "l", "e", "a", "r", ",", " ", "n", "o", "r", "m", "a", "l", " ", "o", "p", "e", "r", "a", "t", "i", "o", "n", "s">>}

RECURSIVE join(_)
join(words) ==
    IF words = <<>> THEN <<>>
    ELSE IF Len(words) = 1 THEN words[1]
    ELSE words[1] \o <<" ">> \o join(Tail(words))

SceneTexts ==
    ExampleTexts \cup
    UNION {{join(ws) : ws \in [1..n -> Vocabulary]} : n \in 0..MaxWords}

\* detection lists: n detections of confidence 0.4, the k-th one (if any) 0.9
DetectionLists ==
    UNION {{[i \in 1..n |-> IF i = k THEN 90 ELSE 40] : k \in 0..n} : n \in 0..MaxDetections}

AssessInit ==
    /\ PipelineInit
    /\ scene_description \in SceneTexts
    /\ detections \in DetectionLists
    /\ assessment = NotAssessed
    /\ TrackerIdle
    /\ GlobalIdle
    /\ ConfigIdle /\ IouIdle /\ NmsIdle /\ ApiIdle

call_assess_threat ==
    /\ assessment = NotAssessed
    /\ assessment' = assess_threat(detections, scene_description)
    /\ UNCHANGED <<running, frame_queue, result_queue, capture_thread, process_thread,
                   cap, proc, caller, returned, sys, error_log, offered, accepted,
                   processed, failed, published, called, realtime_processing,
                   direct_vars, scene_description, detections, tracker_vars, global_vars,
                   config_vars, iou_vars, nms_vars, api_vars>>

----------------------------------------------------------------------------
(* The calls a user of one MetricsTracker makes *)

not_tracker_vars ==
    <<running, frame_queue, result_queue, capture_thread, process_thread, cap, proc,
      caller, returned, sys, error_log, offered, accepted, processed, failed, published,
      called, realtime_processing, direct_vars, assess_vars, global_vars,
      config_vars, iou_vars, nms_vars, api_vars>>

call_record(metric_name, value) ==
    /\ held(tracker.metrics) < MaxSamples
    /\ tracker' = record_value(tracker, metric_name, value)
    /\ recorded' = [recorded EXCEPT ![metric_name] = Append(@, value)]
    /\ UNCHANGED <<now, scopes, ret, incremented, not_tracker_vars>>

call_increment(counter_name, value) ==
    /\ incremented[counter_name] + value <= MaxCount
    /\ tracker' = increment_by(tracker, counter_name, value)
    /\ incremented' = [incremented EXCEPT ![counter_name] = @ + value]
    /\ UNCHANGED <<now, scopes, ret, recorded, not_tracker_vars>>

tick ==
    /\ now < MaxClock
    /\ now' = now + 1
    /\ UNCHANGED <<tracker, scopes, ret, recorded, incremented, not_tracker_vars>>

call_start_timer(timer_name) ==
    /\ tracker' = start_timer(tracker, timer_name, now)
    /\ UNCHANGED <<now, scopes, ret, recorded, incremented, not_tracker_vars>>

call_stop_timer(timer_name) ==
    LET r == stop_timer(tracker, timer_name, now)
    IN  /\ timer_name \in DOMAIN tracker.start_times => held(tracker.metrics) < MaxSamples
        /\ tracker' = r.tracker
        /\ ret' = [NoReturn EXCEPT !.op = "stop_timer", !.name = timer_name,
                                   !.elapsed = r.value, !.raised = r.raised]
        /\ recorded' = IF r.raised = "none"
                       THEN [recorded EXCEPT ![timer_name] = Append(@, r.value)]
                       ELSE recorded
        /\ UNCHANGED <<now, scopes, incremented, not_tracker_vars>>

timer_enter(metric_name) ==
    /\ Len(scopes) < MaxScopes
    /\ scopes' = <<[metric_name |-> metric_name, start_time |-> now]>> \o scopes
    /\ UNCHANGED <<tracker, now, ret, recorded, incremented, not_tracker_vars>>

\* the body of the innermost timer() scope ends, normally or by an exception
timer_leave(body_raises) ==
    /\ scopes # <<>>
    /\ held(tracker.metrics) < MaxSamples
    /\ tracker' = timer_exit(tracker, Head(scopes), now, body_raises)
    /\ scopes' = Tail(scopes)
    /\ ret' = [NoReturn EXCEPT !.op = "timer", !.name = Head(scopes).metric_name,
                               !.elapsed = now - Head(scopes).start_time,
                               !.raised = IF body_raises THEN "BodyError" ELSE "none"]
    /\ recorded' = [recorded EXCEPT ![Head(scopes).metric_name] =
                        Append(@, now - Head(scopes).start_time)]
    /\ UNCHANGED <<now, incremented, not_tracker_vars>>

call_get_summary(metric_name) ==
    /\ tracker' = IF metric_name # "" THEN compute_summary(tracker, metric_name).tracker
                  ELSE tracker
    /\ ret' = [NoReturn EXCEPT !.op = "get_summary", !.name = metric_name,
                               !.summary = get_summary(tracker, metric_name)]
    /\ UNCHANGED <<now, scopes, recorded, incremented, not_tracker_vars>>

call_get_latest(metric_name, n) ==
    /\ ret' = [NoReturn EXCEPT !.op = "get_latest", !.name = metric_name, !.n = n,
                               !.latest = get_latest(tracker, metric_name, n)]
    /\ UNCHANGED <<tracker, now, scopes, recorded, incremented, not_tracker_vars>>

call_reset ==
    /\ tracker' = reset(tracker)
    /\ ret' = [NoReturn EXCEPT !.op = "reset",
                               !.dropped = [samples |-> held(tracker.metrics),
                                            counters |-> DOMAIN tracker.counters,
                                            timers |-> DOMAIN tracker.start_times]]
    /\ recorded' = [name \in SampleNames |-> <<>>]
    /\ incremented' = [c \in Counters |-> 0]
    /\ UNCHANGED <<now, scopes, not_tracker_vars>>

TrackerInit == PipelineInit /\ AssessIdle /\ TrackerIdle /\ GlobalIdle /\ ConfigIdle /\ IouIdle /\ NmsIdle /\ ApiIdle

----------------------------------------------------------------------------
(* The module-level singletons: get_metrics / reset_metrics of metrics.py   *)
(* and get_config / reset_config of config_loader.py.  An object is named   *)
(* by its rank of creation in its class.                                    *)

MaxInstances == 3   \* objects of one class created by the accessors
MaxUses == 1        \* samples recorded into one global tracker

\* mutant: the accessor does not look at the global
get_metrics_always_new(global, objects) ==
    [global |-> Len(objects) + 1,
     objects |-> Append(objects, NewTracker),
     result |-> Len(objects) + 1]

\* get_metrics(): the global and the objects after the call, and the result
get_metrics(global, objects) ==
    IF global = 0
    THEN [global |-> Len(objects) + 1,
          objects |-> Append(objects, NewTracker),
          result |-> Len(objects) + 1]
    ELSE [global |-> global, objects |-> objects, result |-> global]

\* get_config(config_path); exists tells whether the configuration file is
\* there when ConfigLoader(config_path) looks for it
get_config(global, objects, exists) ==
    IF global = 0
    THEN IF exists
         THEN [global |-> objects + 1, objects |-> objects + 1,
               result |-> objects + 1, raised |-> "none"]
         ELSE [global |-> 0, objects |-> objects,
               result |-> 0, raised |-> "FileNotFoundError"]
    ELSE [global |-> global, objects |-> objects, result |-> global, raised |-> "none"]

not_global_vars ==
    <<running, frame_queue, result_queue, capture_thread, process_thread, cap, proc,
      caller, returned, sys, error_log, offered, accepted, processed, failed, published,
      called, realtime_processing, direct_vars, assess_vars, tracker_vars,
      config_vars, iou_vars, nms_vars, api_vars>>

call_get_metrics ==
    LET r == get_metrics(global_metrics, metrics_objects)
    IN  /\ Len(r.objects) <= MaxInstances
        /\ global_metrics' = r.global
        /\ metrics_objects' = r.objects
        /\ refs' = [refs EXCEPT !.metrics = r.result, !.metrics_reset = FALSE,
                                !.metrics_gets = Min(@ + 1, 2)]
        /\ UNCHANGED <<global_config, config_objects, not_global_vars>>

call_reset_metrics ==
    /\ global_metrics' = 0
    /\ refs' = [refs EXCEPT !.metrics_reset = TRUE, !.metrics_gets = 0]
    /\ UNCHANGED <<metrics_objects, global_config, config_objects, not_global_vars>>

\* the caller records a sample into the tracker it got last
use_metrics(value) ==
    /\ refs.metrics # 0
    /\ held(metrics_objects[refs.metrics].metrics) < MaxUses
    /\ metrics_objects' = [metrics_objects EXCEPT ![refs.metrics] = record_value(@, "latency", value)]
    /\ UNCHANGED <<global_metrics, global_config, config_objects, refs, not_global_vars>>

call_get_config(exists) ==
    LET r == get_config(global_config, config_objects, exists)
    IN  /\ r.objects <= MaxInstances
        /\ global_config' = r.global
        /\ config_objects' = r.objects
        /\ refs' = IF r.raised = "none"
                   THEN [refs EXCEPT !.config = r.result, !.config_reset = FALSE,
                                     !.config_gets = Min(@ + 1, 2)]
                   ELSE refs
        /\ UNCHANGED <<global_metrics, metrics_objects, not_global_vars>>

call_reset_config ==
    /\ global_config' = 0
    /\ refs' = [refs EXCEPT !.config_reset = TRUE, !.config_gets = 0]
    /\ UNCHANGED <<global_metrics, metrics_objects, config_objects, not_global_vars>>

GlobalInit == PipelineInit /\ AssessIdle /\ TrackerIdle /\ GlobalIdle /\ ConfigIdle /\ IouIdle /\ NmsIdle /\ ApiIdle

GlobalNext ==
    \/ call_get_metrics
    \/ call_reset_metrics
    \/ \E value \in Values : use_metrics(value)
    \/ \E exists \in BOOLEAN : call_get_config(exists)
    \/ call_reset_config

\* the two accessors and their resets, called in any order
GlobalSpec == GlobalInit /\ [][GlobalNext]_vars

----------------------------------------------------------------------------
(* ConfigLoader (core/config_loader.py).  A str is a sequence of           *)
(* characters.  A nested dict is the set of its entries at every depth:    *)
(* [path, kind, text], path being the keys that lead to the entry; the     *)
(* entry of a nested dict has kind "dict".                                 *)

MaxEnv == 1       \* variables in os.environ
MaxUpdates == 1   \* update calls on one ConfigLoader

\* a str, an int, a float or a bool, by its text
Value(kind, text) == [kind |-> kind, text |-> text, items |-> {}]
DictValue(items) == [kind |-> "dict", text |-> <<>>, items |-> items]

RECURSIVE split(_)
\* str.split('.')
split(text) ==
    IF \A i \in DOMAIN text : text[i] # "." THEN <<text>>
    ELSE LET i == CHOOSE k \in DOMAIN text :
                      text[k] = "." /\ \A j \in 1..(k - 1) : text[j] # "."
         IN  <<SubSeq(text, 1, i - 1)>> \o split(SubSeq(text, i + 1, Len(text)))

\* str.replace('_', '.')
replace(text) == [i \in DOMAIN text |-> IF text[i] = "_" THEN "." ELSE text[i]]

\* str.startswith(prefix)
startswith(text, prefix) ==
    Len(text) >= Len(prefix) /\ SubSeq(text, 1, Len(prefix)) = prefix

env_prefix == <<"S", "M", "O", "L", "V", "L", "M", "_">>

Digits == {"0", "1", "2", "3", "4", "5", "6", "7", "8", "9"}

\* str.isdigit()
isdigit(text) == text # <<>> /\ \A i \in DOMAIN text : text[i] \in Digits

\* _is_float: float(value) does not raise.  The texts of the model have no
\* exponent, blank or underscore: digits with at most one point, or a name
is_float(text) ==
    LET t == lower(text)
    IN  \/ t \in {<<"n", "a", "n">>, <<"i", "n", "f">>}
        \/ /\ \E i \in DOMAIN t : t[i] \in Digits
           /\ \A i \in DOMAIN t : t[i] \in Digits \cup {"."}
           /\ Cardinality({i \in DOMAIN t : t[i] = "."}) <= 1

RECURSIVE int(_)
\* int(value) of a text of digits, as the decimal numeral of the number
int(text) ==
    IF Len(text) > 1 /\ Head(text) = "0" THEN int(Tail(text)) ELSE text

\* the type conversion of _set_nested_value
convert(value) ==
    IF lower(value.text) \in {<<"t", "r", "u", "e">>, <<"f", "a", "l", "s", "e">>}
    THEN Value("bool", lower(value.text))
    ELSE IF isdigit(value.text) THEN Value("int", int(value.text))
    ELSE IF is_float(value.text) THEN Value("float", value.text)
    ELSE value

\* `key in current`, current being the dict at path
has(tree, path) == \E e \in tree : e.path = path

\* isinstance(current, dict); the configuration itself is the dict at <<>>
is_dict(tree, path) ==
    path = <<>> \/ \E e \in tree : e.path = path /\ e.kind = "dict"

is_prefix(p, q) == Len(p) <= Len(q) /\ SubSeq(q, 1, Len(p)) = p

\* the entries below path, as the dict at path holds them
items_at(tree, path) ==
    {[path |-> SubSeq(e.path, Len(path) + 1, Len(e.path)), kind |-> e.kind, text |-> e.text] :
        e \in {d \in tree : is_prefix(path, d.path) /\ d.path # path}}

\* the object at path
value_at(tree, path) ==
    IF is_dict(tree, path) THEN DictValue(items_at(tree, path))
    ELSE LET e == CHOOSE d \in tree : d.path = path
         IN  [kind |-> e.kind, text |-> e.text, items |-> {}]

\* current[key] = value, path being that of current[key]
store(tree, path, value) ==
    {e \in tree : ~is_prefix(path, e.path)}
        \cup {[path |-> path, kind |-> value.kind, text |-> value.text]}
        \cup {[path |-> path \o i.path, kind |-> i.kind, text |-> i.text] : i \in value.items}

RECURSIVE walk(_, _, _)
\* the loop of _set_nested_value over keys[:-1]: a missing key gets an empty
\* dict; `in` or the subscript raises TypeError when current is no dict
walk(tree, path, keys) ==
    IF keys = <<>> THEN [tree |-> tree, path |-> path, raised |-> "none"]
    ELSE IF ~is_dict(tree, path) THEN [tree |-> tree, path |-> path, raised |-> "TypeError"]
    ELSE LET next == Append(path, Head(keys))
         IN  walk(IF has(tree, next) THEN tree ELSE store(tree, next, DictValue({})),
                  next, Tail(keys))

\* _set_nested_value: the configuration afterwards and the exception raised
set_nested_value(tree, key_path, value) ==
    LET keys == split(key_path)
        w == walk(tree, <<>>, SubSeq(keys, 1, Len(keys) - 1))
    IN  IF w.raised # "none" THEN [tree |-> w.tree, raised |-> w.raised]
        ELSE IF value.kind # "str" THEN [tree |-> w.tree, raised |-> "AttributeError"]
        ELSE IF ~is_dict(w.tree, w.path) THEN [tree |-> w.tree, raised |-> "TypeError"]
        ELSE [tree |-> store(w.tree, Append(w.path, keys[Len(keys)]), convert(value)),
              raised |-> "none"]

RECURSIVE get_loop(_, _, _, _)
\* the loop of get over the keys
get_loop(tree, path, keys, default) ==
    IF keys = <<>> THEN value_at(tree, path)
    ELSE IF is_dict(tree, path) /\ has(tree, Append(path, Head(keys)))
    THEN get_loop(tree, Append(path, Head(keys)), Tail(keys), default)
    ELSE default

\* mutant: a missing segment gives None, whatever default was passed
get_without_default(tree, key_path, default) == get_loop(tree, <<>>, split(key_path), None)

\* ConfigLoader.get
get(tree, key_path, default) == get_loop(tree, <<>>, split(key_path), default)

RECURSIVE apply_env_overrides(_, _)
\* _apply_env_overrides, over the variables in iteration order
apply_env_overrides(tree, env) ==
    IF env = <<>> THEN [tree |-> tree, raised |-> "none"]
    ELSE LET key == Head(env).key
             value == Head(env).value
         IN  IF startswith(key, env_prefix)
             THEN LET config_key == replace(lower(SubSeq(key, Len(env_prefix) + 1, Len(key))))
                      r == set_nested_value(tree, config_key, Value("str", value))
                  IN  IF r.raised # "none" THEN r
                      ELSE apply_env_overrides(r.tree, Tail(env))
             ELSE apply_env_overrides(tree, Tail(env))

\* the texts of the model
Text ==
    [model |-> <<"m", "o", "d", "e", "l">>,
     smolvlm |-> <<"s", "m", "o", "l", "v", "l", "m">>,
     backend |-> <<"b", "a", "c", "k", "e", "n", "d">>,
     max_tokens |-> <<"m", "a", "x", "_", "t", "o", "k", "e", "n", "s">>,
     unknown |-> <<"u", "n", "k", "n", "o", "w", "n">>,
     key |-> <<"k", "e", "y">>,
     api |-> <<"a", "p", "i">>,
     port |-> <<"p", "o", "r", "t">>,
     mlx |-> <<"m", "l", "x">>,
     transformers |-> <<"t", "r", "a", "n", "s", "f", "o", "r", "m", "e", "r", "s">>,
     n150 |-> <<"1", "5", "0">>,
     n0150 |-> <<"0", "1", "5", "0">>,
     n100 |-> <<"1", "0", "0">>,
     n8000 |-> <<"8", "0", "0", "0">>,
     True |-> <<"T", "r", "u", "e">>,
     default |-> <<"d", "e", "f", "a", "u", "l", "t">>,
     root |-> <<"r", "o", "o", "t">>]

RECURSIVE dotted(_)
\* the dotted key path of a sequence of keys
dotted(keys) ==
    IF keys = <<>> THEN <<>>
    ELSE IF Len(keys) = 1 THEN keys[1]
    ELSE keys[1] \o <<".">> \o dotted(Tail(keys))

\* the key paths callers pass
KeyPaths ==
    {dotted(<<Text.model, Text.smolvlm, Text.max_tokens>>),
     dotted(<<Text.model, Text.smolvlm, Text.backend>>),
     dotted(<<Text.model, Text.smolvlm, Text.backend, Text.key>>),
     dotted(<<Text.model, Text.backend>>),
     dotted(<<Text.unknown, Text.key>>),
     dotted(<<Text.model>>)}

\* the values callers pass to update
UpdateValues == {Value("int", Text.n150), Value("str", Text.n150), Value("str", Text.transformers), Value("str", Text.True)}

\* the defaults callers pass to get
Defaults == {None, Value("str", Text.default)}

SMOLVLM_MODEL_BACKEND ==
    <<"S", "M", "O", "L", "V", "L", "M", "_", "M", "O", "D", "E", "L", "_",
      "B", "A", "C", "K", "E", "N", "D">>

\* the variables the environment may hold
EnvVars ==
    {[key |-> SMOLVLM_MODEL_BACKEND, value |-> Text.transformers],
     [key |-> env_prefix \o <<"M", "O", "D", "E", "L", "_", "S", "M", "O", "L", "V", "L", "M", "_",
                           "B", "A", "C", "K", "E", "N", "D">>,
      value |-> Text.transformers],
     [key |-> env_prefix \o <<"M", "O", "D", "E", "L">>, value |-> Text.n0150],
     [key |-> <<"H", "O", "M", "E">>, value |-> Text.root]}

\* os.environ: each name at most once
Environments ==
    UNION {{e \in [1..n -> EnvVars] : \A i, j \in 1..n : e[i].key = e[j].key => i = j} :
              n \in 0..MaxEnv}

\* what yaml.safe_load returns for the file at config_path
ConfigFiles ==
    [base |-> DictValue({[path |-> <<Text.model>>, kind |-> "dict", text |-> <<>>],
                    [path |-> <<Text.model, Text.smolvlm>>, kind |-> "dict", text |-> <<>>],
                    [path |-> <<Text.model, Text.smolvlm, Text.backend>>, kind |-> "str", text |-> Text.mlx],
                    [path |-> <<Text.model, Text.smolvlm, Text.max_tokens>>, kind |-> "int", text |-> Text.n100],
                    [path |-> <<Text.api>>, kind |-> "dict", text |-> <<>>],
                    [path |-> <<Text.api, Text.port>>, kind |-> "int", text |-> Text.n8000]}),
     empty |-> DictValue({})]

\* _load_config
load_config(file, env) ==
    IF file = "missing" THEN [tree |-> {}, raised |-> "FileNotFoundError"]
    ELSE apply_env_overrides(ConfigFiles[file].items, env)

not_config_vars ==
    <<running, frame_queue, result_queue, capture_thread, process_thread, cap, proc,
      caller, returned, sys, error_log, offered, accepted, processed, failed, published,
      called, realtime_processing, direct_vars, assess_vars, tracker_vars, global_vars,
      iou_vars, nms_vars, api_vars>>

\* ConfigLoader(config_path)
construct ==
    /\ config.state = "none"
    /\ LET r == load_config(config_file, environ)
       IN  /\ config' = IF r.raised = "none" THEN [state |-> "loaded", tree |-> r.tree]
                        ELSE [state |-> "raised", tree |-> {}]
           /\ cfg_ret' = [NoConfigCall EXCEPT !.op = "init", !.raised = r.raised]
    /\ UNCHANGED <<environ, config_file, updates, not_config_vars>>

\* loader.update(key_path, value)
call_update(key_path, value) ==
    /\ config.state = "loaded"
    /\ updates < MaxUpdates
    /\ LET r == set_nested_value(config.tree, key_path, value)
       IN  /\ config' = [config EXCEPT !.tree = r.tree]
           /\ cfg_ret' = [op |-> "update", key_path |-> key_path, value |-> value,
                          result |-> None, raised |-> r.raised]
    /\ updates' = updates + 1
    /\ UNCHANGED <<environ, config_file, not_config_vars>>

\* loader.get(key_path, default)
call_get(key_path, default) ==
    /\ config.state = "loaded"
    /\ cfg_ret' = [op |-> "get", key_path |-> key_path, value |-> default,
                   result |-> get(config.tree, key_path, default), raised |-> "none"]
    /\ UNCHANGED <<environ, config_file, config, updates, not_config_vars>>

ConfigInit ==
    /\ PipelineInit /\ AssessIdle /\ TrackerIdle /\ GlobalIdle /\ IouIdle /\ NmsIdle /\ ApiIdle
    /\ environ \in Environments
    /\ config_file \in {"missing", "base", "empty"}
    /\ config = [state |-> "none", tree |-> {}]
    /\ cfg_ret = NoConfigCall
    /\ updates = 0

ConfigNext ==
    \/ construct
    \/ \E key_path \in KeyPaths, value \in UpdateValues : call_update(key_path, value)
    \/ \E key_path \in KeyPaths, default \in Defaults : call_get(key_path, default)

\* a ConfigLoader constructed from a file and an environment, then used
ConfigSpec == ConfigInit /\ [][ConfigNext]_vars

----------------------------------------------------------------------------
(* calculate_iou (utils/image_utils.py).  Boxes have integer corners, and   *)
(* the float returned is the exact fraction num / den (0.0 is 0 / 1).       *)

GridSize == 3   \* box corners lie in 0..GridSize

Max(a, b) == IF a > b THEN a ELSE b

\* the well-formed boxes of the grid
Boxes ==
    {b \in [x1 : 0..GridSize, y1 : 0..GridSize, x2 : 0..GridSize, y2 : 0..GridSize] :
        b.x1 < b.x2 /\ b.y1 < b.y2}

\* mutant: the union counts the intersection twice
calculate_iou_sum_of_areas(b1, b2) ==
    LET x1_i == Max(b1.x1, b2.x1)
        y1_i == Max(b1.y1, b2.y1)
        x2_i == Min(b1.x2, b2.x2)
        y2_i == Min(b1.y2, b2.y2)
        intersection == (x2_i - x1_i) * (y2_i - y1_i)
        area1 == (b1.x2 - b1.x1) * (b1.y2 - b1.y1)
        area2 == (b2.x2 - b2.x1) * (b2.y2 - b2.y1)
        union == area1 + area2
    IN  IF x2_i < x1_i \/ y2_i < y1_i THEN [num |-> 0, den |-> 1]
        ELSE IF union > 0 THEN [num |-> intersection, den |-> union]
        ELSE [num |-> 0, den |-> 1]

calculate_iou(b1, b2) ==
    LET x1_i == Max(b1.x1, b2.x1)
        y1_i == Max(b1.y1, b2.y1)
        x2_i == Min(b1.x2, b2.x2)
        y2_i == Min(b1.y2, b2.y2)
        intersection == (x2_i - x1_i) * (y2_i - y1_i)
        area1 == (b1.x2 - b1.x1) * (b1.y2 - b1.y1)
        area2 == (b2.x2 - b2.x1) * (b2.y2 - b2.y1)
        union == area1 + area2 - intersection
    IN  IF x2_i < x1_i \/ y2_i < y1_i THEN [num |-> 0, den |-> 1]
        ELSE IF union > 0 THEN [num |-> intersection, den |-> union]
        ELSE [num |-> 0, den |-> 1]

not_iou_vars ==
    <<running, frame_queue, result_queue, capture_thread, process_thread, cap, proc,
      caller, returned, sys, error_log, offered, accepted, processed, failed, published,
      called, realtime_processing, direct_vars, assess_vars, tracker_vars, global_vars,
      config_vars, nms_vars, api_vars>>

IouInit ==
    /\ PipelineInit /\ AssessIdle /\ TrackerIdle /\ GlobalIdle /\ ConfigIdle /\ NmsIdle /\ ApiIdle
    /\ box1 \in Boxes
    /\ box2 \in Boxes
    /\ iou_ret = NoIou

call_calculate_iou ==
    /\ iou_ret = NoIou
    /\ iou_ret' = calculate_iou(box1, box2)
    /\ UNCHANGED <<box1, box2, not_iou_vars>>

\* calculate_iou applied to one pair of boxes
IouSpec == IouInit /\ [][call_calculate_iou]_vars

----------------------------------------------------------------------------
(* BaseDetector.nms (detectors/base_detector.py).  A detection is          *)
(* [bbox, confidence, class_id]; confidences and thresholds are in         *)
(* hundredths.                                                             *)

MaxBoxes == 3   \* detections passed to one nms call

\* `iou_threshold or self.config.get('iou_threshold', 0.45)`: None and 0.0 are false
threshold_used(threshold) ==
    IF threshold.passed /\ threshold.value # 0 THEN threshold.value ELSE threshold.configured

RECURSIVE sorted_by_confidence(_)
\* sorted(results, key=lambda x: x.confidence, reverse=True): equal
\* confidences keep their order
sorted_by_confidence(rs) ==
    IF rs = <<>> THEN <<>>
    ELSE LET i == CHOOSE k \in DOMAIN rs :
                      /\ \A j \in DOMAIN rs : rs[j].confidence <= rs[k].confidence
                      /\ \A j \in 1..(k - 1) : rs[j].confidence < rs[k].confidence
         IN  <<rs[i]>> \o sorted_by_confidence(SubSeq(rs, 1, i - 1) \o SubSeq(rs, i + 1, Len(rs)))

RECURSIVE nms_loop(_, _, _)
\* the while loop of nms
nms_loop(rs, keep, iou_threshold) ==
    IF rs = <<>> THEN keep
    ELSE LET current == Head(rs)
             \* current.iou(r), a fraction, against the threshold in hundredths
             stays(r) == LET v == calculate_iou(current.bbox, r.bbox)
                         IN  v.num * 100 < iou_threshold * v.den
                                 \/ r.class_id # current.class_id
         IN  nms_loop(SelectSeq(Tail(rs), stays), Append(keep, current), iou_threshold)

nms(rs, threshold) ==
    IF rs = <<>> THEN <<>>
    ELSE nms_loop(sorted_by_confidence(rs), <<>>, threshold_used(threshold))

\* the detections of the model: three overlapping boxes and one apart from them
Detections ==
    [bbox : {[x1 |-> 0, y1 |-> 0, x2 |-> 2, y2 |-> 2],
             [x1 |-> 1, y1 |-> 0, x2 |-> 3, y2 |-> 2],
             [x1 |-> 0, y1 |-> 0, x2 |-> 2, y2 |-> 3],
             [x1 |-> 4, y1 |-> 4, x2 |-> 5, y2 |-> 5]},
     confidence : {80, 90}, class_id : {0, 1}]

DetectionSeqs == UNION {[1..n -> Detections] : n \in 0..MaxBoxes}

\* the iou_threshold argument (absent, 0.0, 0.3 or 0.5), and what the
\* configuration of the detector gives (0.45 when it has no iou_threshold)
Thresholds ==
    {[passed |-> FALSE, value |-> 0, configured |-> c] : c \in {45, 60}}
        \cup {[passed |-> TRUE, value |-> v, configured |-> 45] : v \in {0, 30, 50}}

not_nms_vars ==
    <<running, frame_queue, result_queue, capture_thread, process_thread, cap, proc,
      caller, returned, sys, error_log, offered, accepted, processed, failed, published,
      called, realtime_processing, direct_vars, assess_vars, tracker_vars, global_vars,
      config_vars, iou_vars, api_vars>>

NmsInit ==
    /\ PipelineInit /\ AssessIdle /\ TrackerIdle /\ GlobalIdle /\ ConfigIdle /\ IouIdle /\ ApiIdle
    /\ nms_results \in DetectionSeqs
    /\ nms_threshold \in Thresholds
    /\ nms_keep = NotRun

call_nms ==
    /\ ~nms_keep.done
    /\ nms_keep' = [done |-> TRUE, keep |-> nms(nms_results, nms_threshold)]
    /\ UNCHANGED <<nms_results, nms_threshold, not_nms_vars>>

\* nms applied to one detection list
NmsSpec == NmsInit /\ [][call_nms]_vars

----------------------------------------------------------------------------
(* POST /api/v1/analyze (api/rest_api.py).  The response is the status     *)
(* the exception handlers give the exception that leaves analyze_image.    *)

MaxRequests == 3   \* requests sent to the endpoint

image_prefix == <<"i", "m", "a", "g", "e", "/">>

ContentTypes ==
    {image_prefix \o <<"p", "n", "g">>,
     <<"t", "e", "x", "t", "/", "p", "l", "a", "i", "n">>,
     <<"i", "m", "a", "g", "e">>}

\* analyze_image behind its dependency get_system: the HTTPException(400) is
\* raised inside the try and caught by `except Exception`, as is the error
\* of Image.open for contents that are no image
analyze_image(system, content_type, readable, det, vlm) ==
    IF ~system.loaded
    THEN [metrics |-> system.metrics, status |-> 503, process_frame |-> FALSE]
    ELSE IF ~startswith(content_type, image_prefix)
    THEN [metrics |-> system.metrics, status |-> 500, process_frame |-> FALSE]
    ELSE IF ~readable
    THEN [metrics |-> system.metrics, status |-> 500, process_frame |-> FALSE]
    ELSE LET r == process_frame(system.metrics, det, vlm)
         IN  [metrics |-> r.metrics,
              status |-> IF r.outcome = "raised" THEN 500 ELSE 200,
              process_frame |-> TRUE]

not_api_vars ==
    <<running, frame_queue, result_queue, capture_thread, process_thread, cap, proc,
      caller, returned, sys, error_log, offered, accepted, processed, failed, published,
      called, realtime_processing, direct_vars, assess_vars, tracker_vars, global_vars,
      config_vars, iou_vars, nms_vars>>

\* the startup event
startup_event ==
    /\ ~anti_drone_system.loaded
    /\ anti_drone_system' = [anti_drone_system EXCEPT !.loaded = TRUE]
    /\ UNCHANGED <<response, requests, not_api_vars>>

\* one request to the endpoint
call_analyze_image(content_type, readable, det, vlm) ==
    /\ requests < MaxRequests
    /\ LET r == analyze_image(anti_drone_system, content_type, readable, det, vlm)
       IN  /\ anti_drone_system' = [anti_drone_system EXCEPT !.metrics = r.metrics]
           /\ response' = [content_type |-> content_type, readable |-> readable,
                           det |-> det, vlm |-> vlm,
                           status |-> r.status, process_frame |-> r.process_frame]
    /\ requests' = requests + 1
    /\ UNCHANGED not_api_vars

ApiNext ==
    \/ startup_event
    \/ \E content_type \in ContentTypes, readable \in BOOLEAN,
          det \in DetOutcomes, vlm \in VlmOutcomes :
              call_analyze_image(content_type, readable, det, vlm)

\* the API server: its startup and a sequence of uploads
ApiSpec == Init /\ [][ApiNext]_vars

----------------------------------------------------------------------------
(* Specifications *)

CaptureStep(g) ==
    \/ \E opened \in BOOLEAN : capture_open(g, opened)
    \/ capture_loop(g)
    \/ capture_read_failed(g)
    \/ capture_read(g)

ProcessStep(g) ==
    \/ process_loop(g)
    \/ process_get(g)
    \/ process_get_timeout(g)
    \/ \E det \in DetOutcomes, vlm \in VlmOutcomes : process_process(g, det, vlm)
    \/ process_put(g)
    \/ \E raises \in BOOLEAN : process_callback(g, raises)

\* a caller that starts the stream once
CallerStep ==
    \/ \E cb \in BOOLEAN : capture_thread = 0 /\ start_realtime_stream(cb)
    \/ stop_realtime_stream
    \/ join_capture
    \/ join_process
    \/ \E m \in 0..MaxResults : get_results(m)

Next ==
    \/ CallerStep
    \/ \E g \in Gens : CaptureStep(g)
    \/ \E g \in Gens : ProcessStep(g)

\* the realtime pipeline of one start_realtime_stream call: any interleaving of
\* the caller, the capture thread and the processing thread
Spec == Init /\ [][Next]_vars

\* the same, with every spawned thread scheduled again and again; the caller is
\* under no obligation to call anything
LiveSpec == Spec /\ \A g \in Gens : WF_vars(CaptureStep(g)) /\ WF_vars(ProcessStep(g))

\* a caller that starts and stops the stream in any order, up to MaxStarts starts
RestartCallerStep ==
    \/ \E cb \in BOOLEAN : start_realtime_stream(cb)
    \/ stop_realtime_stream
    \/ join_capture
    \/ join_process
    \/ \E m \in 0..MaxResults : get_results(m)

RestartCaptureStep(g) ==
    \/ \E opened \in BOOLEAN : capture_open(g, opened)
    \/ capture_loop(g)
    \/ capture_read_failed(g)
    \/ cap[g].frame_count < RestartFrames /\ capture_read(g)

RestartNext ==
    \/ RestartCallerStep
    \/ \E g \in Gens : RestartCaptureStep(g)
    \/ \E g \in Gens : ProcessStep(g)

\* the realtime pipeline over several start_realtime_stream calls
RestartSpec == Init /\ [][RestartNext]_vars

\* a caller that starts the stream only when it is not running: each start but
\* the first follows a stop_realtime_stream call that has returned
StopStartCallerStep ==
    \/ \E cb \in BOOLEAN : ~running /\ start_realtime_stream(cb)
    \/ stop_realtime_stream
    \/ join_capture
    \/ join_process
    \/ \E m \in 0..MaxResults : get_results(m)

StopStartNext ==
    \/ StopStartCallerStep
    \/ \E g \in Gens : RestartCaptureStep(g)
    \/ \E g \in Gens : ProcessStep(g)

\* the realtime pipeline started, stopped and started again
StopStartSpec == Init /\ [][StopStartNext]_vars

PFNext == \E det \in DetOutcomes, vlm \in VlmOutcomes : call_process_frame(det, vlm)

\* a sequence of process_frame calls on one AntiDroneSystem
PFSpec == Init /\ [][PFNext]_vars

\* _assess_threat applied to one scene text and one detection list
AssessSpec == AssessInit /\ [][call_assess_threat]_vars

SummaryNext ==
    \/ \E name \in SampleNames, value \in Values : call_record(name, value)
    \/ \E c \in Counters, value \in Deltas : call_increment(c, value)
    \/ \E name \in SampleNames \cup {""} : call_get_summary(name)
    \/ call_reset

\* one MetricsTracker: samples, counters and their summaries
SummarySpec == TrackerInit /\ [][SummaryNext]_vars

LatestNext ==
    \/ \E name \in SampleNames, value \in Values : call_record(name, value)
    \/ \E name \in SampleNames, n \in 0..(MaxSamples + 1) : call_get_latest(name, n)
    \/ call_reset

\* one MetricsTracker: samples and the latest of them
LatestSpec == TrackerInit /\ [][LatestNext]_vars

TimerNext ==
    \/ tick
    \/ \E name \in SampleNames : call_start_timer(name)
    \/ \E name \in SampleNames : call_stop_timer(name)
    \/ \E name \in SampleNames : timer_enter(name)
    \/ \E body_raises \in BOOLEAN : timer_leave(body_raises)
    \/ \E c \in Counters : call_increment(c, MaxCount)
    \/ call_reset

\* one MetricsTracker: its timers, a counter incremented at most once between
\* resets, and reset
TimerSpec == TrackerInit /\ [][TimerNext]_vars

----------------------------------------------------------------------------
(* Helpers of the properties *)

Frames(q) == [i \in DOMAIN q |-> q[i].frame]

Results(q) == [i \in DOMAIN q |-> q[i].result]

IsPrefix(s, t) == Len(s) <= Len(t) /\ \A i \in DOMAIN s : s[i] = t[i]

\* the frames a processing thread has dequeued and not yet handed to process_frame
InFlight(g) == IF proc[g].pc = "process" THEN <<proc[g].frame>> ELSE <<>>

NothingDequeued == processed = <<>> /\ \A g \in Gens : proc[g].pc # "process"

AliveCaptures == {g \in Gens : alive(cap[g])}

AliveProcessors == {g \in Gens : alive(proc[g])}

----------------------------------------------------------------------------
(* C1: the frame queue never holds more than queue_size entries; a frame    *)
(* offered to a full queue is dropped with the queue unchanged, no exception *)
(* escaping, and the capture thread goes on to the next frame; as long as   *)
(* nothing is dequeued the queue holds exactly the first queue_size offered  *)
(* frames.                                                                  *)
C1_FrameQueueBounded ==
    /\ [](Len(frame_queue) <= QueueSize)
    /\ [](NothingDequeued => Frames(frame_queue) = Take(offered, QueueSize))
    /\ [][(offered' # offered /\ Len(frame_queue) = QueueSize) =>
            /\ frame_queue' = frame_queue
            /\ accepted' = accepted
            /\ \E g \in Gens :
                  /\ cap[g].pc = "read"
                  /\ cap'[g] = [cap[g] EXCEPT !.pc = "loop",
                                              !.frame_count = cap[g].frame_count + 1]]_vars

\* more frames offered than the queue holds, none dequeued, the capture thread
\* back at its loop test
C1_Witness ==
    /\ Len(offered) > QueueSize
    /\ NothingDequeued
    /\ Len(frame_queue) = QueueSize
    /\ cap[1].pc = "loop"

(* C2: once stop_realtime_stream has cleared the run flag, the capture      *)
(* thread and the processing thread both end, whatever the state of the two *)
(* queues and with no further call by the caller.                           *)
C2_StopTerminates ==
    (~running) ~> (AliveCaptures = {} /\ AliveProcessors = {})

(* C3: get_results(max_results) is always able to run and return; with k    *)
(* results queued it returns the min(max_results, k) oldest in publication  *)
(* order and leaves the others queued in their order.                       *)
C3_GetResultsDrain ==
    /\ [](caller = "idle" => \A m \in 0..MaxResults : ENABLED get_results(m))
    /\ [][\A m \in 0..MaxResults : get_results(m) =>
            LET k == Len(result_queue)
                n == Min(m, k)
            IN  /\ returned' = [i \in 1..n |-> result_queue[i].result]
                /\ result_queue' = [i \in 1..(k - n) |-> result_queue[n + i]]
                /\ Len(returned') = IF m < k THEN m ELSE k]_vars

\* a call that returned the oldest result and left a later one queued
C3_Witness ==
    /\ Len(published) >= 2
    /\ returned = <<published[1]>>
    /\ Results(result_queue) = <<published[2]>>

(* C4: a start_realtime_stream call made while the processor is RUNNING     *)
(* spawns no further thread, so at most one capture thread and at most one  *)
(* processing thread are alive at any time.                                 *)
C4_NotReentrant ==
    /\ [](running => Cardinality(AliveCaptures) <= 1 /\ Cardinality(AliveProcessors) <= 1)
    /\ [][(running /\ capture_thread' # capture_thread) =>
            (AliveCaptures' = AliveCaptures /\ AliveProcessors' = AliveProcessors)]_vars

(* C5: an exception of process_frame or of the callback is caught in the    *)
(* processing thread: the thread stays alive and is back at its loop test,  *)
(* the run flag and the result queue are as before, and no result of a      *)
(* frame whose process_frame call raised is ever published.                 *)
C5_FrameErrorContained ==
    /\ [](\A i \in DOMAIN published : published[i] \notin failed)
    /\ [][(error_log' # error_log \/ failed' # failed) =>
            /\ running' = running
            /\ result_queue' = result_queue
            /\ published' = published
            /\ \E g \in Gens :
                  /\ proc[g].pc \in {"process", "callback"}
                  /\ proc'[g].pc = "loop"
                  /\ \A h \in Gens \ {g} : proc'[h] = proc[h]]_vars

\* a frame failed, and a frame handed to process_frame after it was published
C5_Witness ==
    /\ running
    /\ \E i, j \in DOMAIN processed :
          /\ i < j
          /\ processed[i] \in failed
          /\ processed[j] \in Range(published)

(* C6: with one capture thread and one processing thread the frames are     *)
(* handed to process_frame in the order the frame queue accepted them, each *)
(* at most once, none skipped; results are published, and the callback is   *)
(* invoked, in that order.                                                  *)
C6_FifoOrder ==
    /\ accepted = processed \o InFlight(1) \o Frames(frame_queue)
    /\ IsPrefix(processed, accepted)
    /\ \A i, j \in DOMAIN processed : i # j => processed[i] # processed[j]
    /\ IsPrefix(published, SelectSeq(processed, LAMBDA f : f \notin failed))
    /\ IsPrefix([i \in DOMAIN called |-> called[i][3]], published)
    /\ \A i \in DOMAIN called : called[i][2] = called[i][3] /\ called[i][1] = called[i][2][2]

\* two frames processed and published in order, after a frame was dropped
C6_Witness ==
    /\ Len(accepted) < Len(offered)
    /\ Len(processed) >= 2
    /\ Len(published) >= 2
    /\ Len(called) >= 2

(* C7: the processing thread can wait only in the timed dequeue: wherever   *)
(* else it stands it can take its next step, in particular it can publish   *)
(* a result although the result queue is full.                              *)
C7_PutNeverWaits ==
    \A g \in Gens : alive(proc[g]) => ENABLED ProcessStep(g)

(* C8: a source failure ends the capture thread only: the step leaves the   *)
(* run flag, the frame queue and the processing thread as they are, and the *)
(* processing thread then processes every frame that is in the frame queue  *)
(* (nothing is enqueued any more, so the queue empties).                    *)
C8_CaptureFailureOnly ==
    /\ [][(cap[1].exit = "none" /\ cap'[1].exit \in {"open_failed", "read_failed"}) =>
            /\ ~alive(cap'[1])
            /\ running' = running
            /\ frame_queue' = frame_queue
            /\ proc' = proc]_vars
    /\ (cap[1].exit \in {"open_failed", "read_failed"} /\ frame_queue # <<>>)
          ~> (frame_queue = <<>> \/ ~running)

----------------------------------------------------------------------------
(* Properties of process_frame, over sequences of direct calls (PFSpec) *)

StageOrder == <<"detection", "scene_analysis", "assess_threat", "recommend_action">>

(* C9: process_frame invokes its stages in the order detection, scene       *)
(* analysis, threat assessment, action recommendation and stops at the      *)
(* first failure: a detector error leaves the VLM uninvoked, a detector or  *)
(* VLM error leaves the later stages unrun, returns no ThreatAssessment and *)
(* reaches the caller as that same error.                                   *)
C9_StagesAbortOnFailure ==
    last_call.outcome # "none" =>
        /\ IsPrefix(last_call.stages, StageOrder)
        /\ last_call.det # "ok" =>
              /\ last_call.stages = <<"detection">>
              /\ last_call.outcome = "raised"
              /\ last_call.error = last_call.det
        /\ (last_call.det = "ok" /\ last_call.vlm # "ok") =>
              /\ last_call.stages = <<"detection", "scene_analysis">>
              /\ last_call.outcome = "raised"
              /\ last_call.error = last_call.vlm
        /\ (last_call.det = "ok" /\ last_call.vlm = "ok") =>
              /\ last_call.stages = StageOrder
              /\ last_call.outcome = "returned"

\* a call whose detector raised although the VLM would have answered
C9_Witness ==
    /\ last_call.det = "DetectionError"
    /\ last_call.vlm = "ok"
    /\ last_call.outcome = "raised"
    /\ n_returned >= 1

(* C10: frames_processed is the number of process_frame calls that returned *)
(* and processing_errors the number that raised; every call adds 1 to       *)
(* exactly one of the two counters.                                         *)
C10_CountersMatchCalls ==
    /\ [](/\ sys.counters["frames_processed"] = n_returned
          /\ sys.counters["processing_errors"] = n_raised)
    /\ [][\/ /\ sys'.counters["frames_processed"] = sys.counters["frames_processed"] + 1
              /\ sys'.counters["processing_errors"] = sys.counters["processing_errors"]
           \/ /\ sys'.counters["frames_processed"] = sys.counters["frames_processed"]
              /\ sys'.counters["processing_errors"] = sys.counters["processing_errors"] + 1]_vars

\* calls of every kind: returned, detector failed, VLM failed
C10_Witness ==
    /\ n_returned >= 2
    /\ n_raised >= 2
    /\ sys.samples["scene_analysis"] > n_returned
    /\ sys.samples["detection"] > sys.samples["scene_analysis"]

----------------------------------------------------------------------------
(* Threat assessment *)

Severity(level) ==
    IF level = "CRITICAL" THEN 4
    ELSE IF level = "HIGH" THEN 3
    ELSE IF level = "MEDIUM" THEN 2
    ELSE 1

\* the levels a keyword of which occurs in the lower-cased scene text
MatchingLevels ==
    {l \in Range(LevelOrder) :
        \E k \in DOMAIN threat_keywords(l) :
            contains(lower(scene_description), threat_keywords(l)[k])}

Assessed == assessment # NotAssessed

\* C11: when the lower-cased scene text contains a keyword of some level,
\* _assess_threat returns the most severe level that has a matching keyword,
\* whatever other levels match and whatever the case of the text, with the
\* largest confidence of the detections, or 0.5 when there is no detection.
C11_MostSevereKeyword ==
    (Assessed /\ MatchingLevels # {}) =>
        /\ assessment.level \in MatchingLevels
        /\ \A l \in MatchingLevels : Severity(l) <= Severity(assessment.level)
        /\ IF detections = <<>> THEN assessment.confidence = 50
           ELSE /\ assessment.confidence \in Range(detections)
                /\ \A d \in Range(detections) : d <= assessment.confidence

\* a mixed-case text with keywords of two levels, and detections of
\* different confidences, has been assessed
C11_Witness ==
    /\ Assessed
    /\ Cardinality(MatchingLevels) >= 2
    /\ lower(scene_description) # scene_description
    /\ Cardinality(Range(detections)) >= 2
    /\ assessment.level = "CRITICAL"
    /\ assessment.confidence = 90

\* C12: when no keyword occurs in the scene text, the result depends on the
\* number n of detections only: (MEDIUM, 0.6) for n > 5, (LOW, 0.5) for
\* 1 <= n <= 5, (LOW, 0.3) for n = 0; it is never HIGH or CRITICAL.
C12_CountFallback ==
    (Assessed /\ MatchingLevels = {}) =>
        /\ Len(detections) > 5 => assessment = [level |-> "MEDIUM", confidence |-> 60]
        /\ (Len(detections) >= 1 /\ Len(detections) <= 5) =>
               assessment = [level |-> "LOW", confidence |-> 50]
        /\ Len(detections) = 0 => assessment = [level |-> "LOW", confidence |-> 30]
        /\ assessment.level \notin {"HIGH", "CRITICAL"}

\* a keyword-free text seen with exactly five detections, one of them of
\* high confidence, has been assessed as LOW
C12_Witness ==
    /\ Assessed
    /\ MatchingLevels = {}
    /\ scene_description # <<>>
    /\ Len(detections) = 5
    /\ 90 \in Range(detections)
    /\ assessment = [level |-> "LOW", confidence |-> 50]

----------------------------------------------------------------------------
(* MetricsTracker *)

\* the sum of the values of a sequence
RECURSIVE Total(_)
Total(seq) ==
    IF Len(seq) = 0 THEN 0 ELSE Total(SubSeq(seq, 1, Len(seq) - 1)) + seq[Len(seq)]

\* the sum of the squares of the values of a sequence
SquareTotal(seq) == Total([i \in DOMAIN seq |-> seq[i] * seq[i]])

\* s is a summary whose count, mean, min and max are those of samples
Summarises(s, samples) ==
    IF samples = <<>> THEN DOMAIN s = {"count"} /\ s.count = 0
    ELSE /\ s.count = Len(samples)
         /\ s.mean.num * Len(samples) = s.mean.den * Total(samples)
         /\ s.min \in Range(samples) /\ \A v \in Range(samples) : s.min <= v
         /\ s.max \in Range(samples) /\ \A v \in Range(samples) : v <= s.max

\* C13: get_summary(name) reflects exactly the samples recorded under name
\* since the last reset (count, mean, min, max); for a name with no samples
\* it returns {count: 0} without raising and without creating the metric; a
\* summary already returned is not changed by a later record call.
C13_SummaryOfRecorded ==
    [][/\ \A name \in SampleNames :
            call_get_summary(name) =>
                /\ Summarises(ret'.summary, recorded[name])
                /\ ret'.raised = "none"
                /\ tracker' = tracker
       /\ \A name \in SampleNames, value \in Values :
            call_record(name, value) => ret' = ret]_vars

\* the summary of the samples 1, 2, 3 has been returned: count 3, mean 2,
\* min 1, max 3, while the other metric name is still unknown
C13_Witness ==
    /\ ret.op = "get_summary"
    /\ ret.name = "latency"
    /\ recorded["latency"] = <<1, 2, 3>>
    /\ "counters" \notin DOMAIN tracker.metrics
    /\ ret.summary.count = 3
    /\ ret.summary.mean.num = 2 * ret.summary.mean.den
    /\ ret.summary.min = 1
    /\ ret.summary.max = 3

\* C14: for every n >= 0, get_latest(name, n) returns the min(n, count) most
\* recently recorded samples of the metric, in the order they were recorded,
\* and never more than n values; for an unknown name it returns the empty list.
C14_LatestAtMostN ==
    [][\A name \in SampleNames, n \in 0..(MaxSamples + 1) :
            call_get_latest(name, n) =>
                LET samples == recorded[name]
                    k == Min(n, Len(samples))
                IN  /\ Len(ret'.latest) <= n
                    /\ ret'.latest = SubSeq(samples, Len(samples) - k + 1, Len(samples))]_vars

\* C15: after reset() the tracker holds no samples, no counters and no
\* pending timer starts: get_summary() is empty, get_summary(name) is
\* {count: 0} for every name, and stop_timer of any timer, one started before
\* the reset included, raises ValueError.
C15_ResetClearsAll ==
    [][call_reset =>
            /\ DOMAIN tracker'.metrics = {}
            /\ DOMAIN tracker'.counters = {}
            /\ DOMAIN tracker'.start_times = {}
            /\ DOMAIN get_summary(tracker', "") = {}
            /\ \A name \in SampleNames :
                    /\ Summarises(get_summary(tracker', name), <<>>)
                    /\ stop_timer(tracker', name, now').raised = "ValueError"]_vars

\* reset has been called on a tracker that held samples, a counter and a
\* pending timer, and holds nothing now
C15_Witness ==
    /\ ret.op = "reset"
    /\ ret.dropped.samples > 0
    /\ ret.dropped.counters # {}
    /\ ret.dropped.timers # {}
    /\ tracker = NewTracker

\* C16: every timer(name) scope appends exactly one sample to the metric
\* name when it is left, whether its body completes or raises, and an
\* exception of the body propagates to the caller.
C16_TimerScopeRecordsOnce ==
    [][\A body_raises \in BOOLEAN :
            timer_leave(body_raises) =>
                LET name == Head(scopes).metric_name
                    before == dict_get(tracker.metrics, name, <<>>)
                IN  /\ name \in DOMAIN tracker'.metrics
                    /\ Len(tracker'.metrics[name]) = Len(before) + 1
                    /\ SubSeq(tracker'.metrics[name], 1, Len(before)) = before
                    /\ tracker'.metrics[name][Len(before) + 1] = now - Head(scopes).start_time
                    /\ \A other \in SampleNames \ {name} :
                            dict_get(tracker'.metrics, other, <<>>) =
                                dict_get(tracker.metrics, other, <<>>)
                    /\ ret'.raised = IF body_raises THEN "BodyError" ELSE "none"]_vars

\* a timer scope whose body raised has been left: the exception reached the
\* caller and the elapsed time is the last sample of the metric
C16_Witness ==
    /\ ret.op = "timer"
    /\ ret.raised = "BodyError"
    /\ ret.name \in DOMAIN tracker.metrics
    /\ tracker.metrics[ret.name] = <<ret.elapsed>>
    /\ ret.elapsed > 0

\* C17: the stdev field of get_summary(name) is the population standard
\* deviation of the recorded samples (squared deviations from the mean
\* divided by the sample count n), and 0 with fewer than 2 samples; for the
\* samples 1 and 3 its square is 1.
C17_PopulationStdev ==
    [][\A name \in SampleNames :
            (call_get_summary(name) /\ recorded[name] # <<>>) =>
                LET samples == recorded[name]
                    n == Len(samples)
                    sd == ret'.summary.stdev
                IN  IF n < 2 THEN sd.sq_num = 0
                    ELSE sd.sq_num * (n * n) =
                            sd.sq_den * (n * SquareTotal(samples) - Total(samples) * Total(samples))]_vars

\* C18: get_summary() without a name returns the summary of every metric
\* name that has samples, none missing and none replaced whatever the metric
\* is called, plus under the key 'counters' the counters mapping, each counter
\* being the sum of the deltas passed to increment since the last reset.
C18_SummaryOfAll ==
    [][call_get_summary("") =>
            /\ \A name \in SampleNames :
                    recorded[name] # <<>> =>
                        /\ name \in DOMAIN ret'.summary
                        /\ "count" \in DOMAIN ret'.summary[name]
                        /\ Summarises(ret'.summary[name], recorded[name])
            /\ \A c \in Counters :
                    incremented[c] > 0 =>
                        /\ "counters" \in DOMAIN ret'.summary
                        /\ c \in DOMAIN ret'.summary["counters"]
                        /\ ret'.summary["counters"][c] = incremented[c]]_vars

\* C19: stop_timer(name) after start_timer(name) appends exactly one sample
\* to the metric name and removes the pending start, so that a second stop
\* fails; with no pending start it raises ValueError and leaves all samples,
\* counters and other pending timers unchanged.
C19_StopTimer ==
    [][\A name \in SampleNames :
            call_stop_timer(name) =>
                IF name \in DOMAIN tracker.start_times
                THEN /\ ret'.raised = "none"
                     /\ tracker'.metrics =
                            dict_set(tracker.metrics, name,
                                     Append(dict_get(tracker.metrics, name, <<>>),
                                            now - tracker.start_times[name]))
                     /\ name \notin DOMAIN tracker'.start_times
                     /\ \A other \in DOMAIN tracker.start_times \ {name} :
                            /\ other \in DOMAIN tracker'.start_times
                            /\ tracker'.start_times[other] = tracker.start_times[other]
                     /\ tracker'.counters = tracker.counters
                     /\ stop_timer(tracker', name, now').raised = "ValueError"
                ELSE /\ ret'.raised = "ValueError"
                     /\ tracker' = tracker]_vars

\* stop_timer has raised ValueError for a name without pending start while
\* the tracker held a sample, a counter and the pending start of the other
\* timer
C19_Witness ==
    /\ ret.op = "stop_timer"
    /\ ret.raised = "ValueError"
    /\ ret.name \notin DOMAIN tracker.start_times
    /\ DOMAIN tracker.start_times # {}
    /\ DOMAIN tracker.counters # {}
    /\ ret.name \in DOMAIN tracker.metrics

----------------------------------------------------------------------------
(* Singletons *)

\* C20: get_metrics() returns the same MetricsTracker as the previous
\* get_metrics() call unless reset_metrics() was called in between, in which
\* case it returns a new, empty instance different from the earlier ones;
\* likewise get_config() returns the same ConfigLoader on every call until
\* reset_config() is called.
C20_SingletonsBetweenResets ==
    [][/\ call_get_metrics =>
            /\ \A i \in DOMAIN metrics_objects : metrics_objects'[i] = metrics_objects[i]
            /\ (refs.metrics # 0 /\ ~refs.metrics_reset) => refs'.metrics = refs.metrics
            /\ (refs.metrics # 0 /\ refs.metrics_reset) =>
                    /\ refs'.metrics \notin DOMAIN metrics_objects
                    /\ refs'.metrics \in DOMAIN metrics_objects'
                    /\ metrics_objects'[refs'.metrics] = NewTracker
       /\ \A exists \in BOOLEAN :
            (call_get_config(exists) /\ refs.config # 0 /\ ~refs.config_reset) =>
                /\ refs'.config = refs.config
                /\ config_objects' = config_objects]_vars

\* after a reset of each kind both accessors have been called twice: the
\* tracker got is the second one created and is empty while the first one
\* holds a sample, and the loader got is the second one created
C20_Witness ==
    /\ refs.metrics_gets = 2
    /\ refs.metrics = 2
    /\ global_metrics = 2
    /\ metrics_objects[1] # NewTracker
    /\ metrics_objects[2] = NewTracker
    /\ refs.config_gets = 2
    /\ refs.config = 2
    /\ global_config = 2

----------------------------------------------------------------------------
(* Stage timers of process_frame *)

\* C29: after any sequence of process_frame calls without reset,
\* 'total_processing' and 'detection' each hold one sample per call, returned
\* or raised (frames_processed + processing_errors), 'scene_analysis' gains
\* one sample in exactly the calls whose detection stage succeeded, and
\* 'processing_time_ms' holds one sample per returned call (frames_processed).
C29_StageSamplesMatchCounters ==
    /\ [](/\ sys.samples["total_processing"] =
                sys.counters["frames_processed"] + sys.counters["processing_errors"]
          /\ sys.samples["detection"] =
                sys.counters["frames_processed"] + sys.counters["processing_errors"]
          /\ sys.samples["total_processing"] = n_returned + n_raised
          /\ sys.samples["processing_time_ms"] = sys.counters["frames_processed"]
          /\ sys.samples["processing_time_ms"] = n_returned)
    /\ [][sys'.samples["scene_analysis"] =
            sys.samples["scene_analysis"] + (IF last_call'.det = "ok" THEN 1 ELSE 0)]_vars

\* calls of the three kinds have been made: the four sample counts differ
C29_Witness ==
    /\ sys.samples["processing_time_ms"] >= 1
    /\ sys.samples["scene_analysis"] > sys.samples["processing_time_ms"]
    /\ sys.samples["total_processing"] > sys.samples["scene_analysis"]
    /\ sys.counters["processing_errors"] >= 2
    /\ last_call.outcome = "returned"

----------------------------------------------------------------------------
(* Stopping and restarting the realtime pipeline *)

\* C25: there is no mid-frame cancellation: the processing thread ends only at
\* its loop test, on a cleared run flag; once it has dequeued a frame it goes
\* through process_frame, then the push to the result queue, then the callback
\* with (sequence, frame, result), or records the failure of process_frame,
\* and none of these steps looks at the run flag, so that a result can be
\* published after the flag was cleared.
C25_NoMidFrameCancellation ==
    /\ [][\A g \in Gens :
            /\ (proc[g].pc # "done" /\ proc'[g].pc = "done") =>
                    (proc[g].pc = "loop" /\ ~running)
            /\ (proc[g].pc = "process" /\ proc'[g] # proc[g]) =>
                    \/ proc'[g].pc = "put"
                    \/ /\ proc'[g].pc = "loop"
                       /\ proc[g].frame \in failed'
                       /\ error_log' = error_log + 1
            /\ (proc[g].pc = "put" /\ proc'[g] # proc[g]) =>
                    /\ published' = Append(published, proc[g].frame)
                    /\ result_queue' = Append(result_queue, [seq |-> proc[g].seq,
                                                             result |-> proc[g].frame])
                    /\ proc'[g].pc = IF proc[g].cb THEN "callback" ELSE "loop"
            /\ (proc[g].pc = "callback" /\ proc'[g] # proc[g]) =>
                    /\ called' = Append(called, <<proc[g].seq, proc[g].frame, proc[g].frame>>)
                    /\ proc'[g].pc = "loop"]_vars
    /\ [](\A g \in Gens :
            (~running /\ proc[g].pc \in {"process", "callback"}) => ENABLED ProcessStep(g))

\* the stop call has returned and the capture thread has ended on the cleared
\* flag, while the processing thread is about to publish the result of a
\* frame and then to invoke the callback
C25_Witness ==
    /\ ~running
    /\ caller = "idle"
    /\ cap[1].exit = "stopped"
    /\ proc[1].pc = "put"
    /\ proc[1].cb
    /\ put_ready(result_queue)

\* C27: a thread that stop_realtime_stream abandoned ends at its next test of
\* the run flag even if start_realtime_stream is called again in the
\* meantime: after a stop followed by a start only the newly spawned threads
\* keep running.
C27_AbandonedThreadsEnd ==
    [][\A g \in Gens :
            g < capture_thread =>
                /\ (cap[g].pc = "loop" /\ cap'[g] # cap[g]) => cap'[g].pc = "done"
                /\ (proc[g].pc = "loop" /\ proc'[g] # proc[g]) => proc'[g].pc = "done"]_vars

\* C28: over any sequence of start and stop calls the sequence numbers of the
\* frames handed to process_frame are strictly increasing, and no frame
\* enqueued before a stop is processed after a later start.
C28_SequenceNumbersIncrease ==
    /\ \A i, j \in DOMAIN processed : i < j => processed[i][2] < processed[j][2]
    /\ [][\A g \in Gens :
            (proc[g].pc = "get" /\ proc'[g].pc = "process") =>
                proc'[g].frame[1] = capture_thread]_vars

----------------------------------------------------------------------------
(* ConfigLoader *)

\* every key of the sequence exists, each in the mapping the keys before it lead to
Resolves(tree, keys) ==
    \A n \in 1..Len(keys) :
        /\ is_dict(tree, SubSeq(keys, 1, n - 1))
        /\ \E e \in tree : e.path = SubSeq(keys, 1, n)

\* C22: get(key_path, default) returns the value stored at the dotted path when
\* every segment exists in the nested mappings and default when a segment is
\* missing or an intermediate value is not a mapping; it does not raise and
\* leaves the configuration as it was.
C22_GetReturnsValueOrDefault ==
    [][\A key_path \in KeyPaths, default \in Defaults :
          call_get(key_path, default) =>
              /\ cfg_ret'.raised = "none"
              /\ config' = config
              /\ cfg_ret'.result =
                     IF Resolves(config.tree, split(key_path))
                     THEN value_at(config.tree, split(key_path))
                     ELSE default]_vars

\* get('model.smolvlm.backend.key', 'default') has just returned 'default':
\* backend exists and is a str, no mapping
C22_Witness ==
    /\ cfg_ret.op = "get"
    /\ cfg_ret.key_path = dotted(<<Text.model, Text.smolvlm, Text.backend, Text.key>>)
    /\ cfg_ret.value = Value("str", Text.default)
    /\ cfg_ret.result = Value("str", Text.default)
    /\ \E e \in config.tree : e.path = <<Text.model, Text.smolvlm, Text.backend>> /\ e.kind = "str"

\* C21: update(key_path, value) does not raise, and get(key_path) then returns
\* that value.
C21_UpdateGetRoundTrip ==
    [][\A key_path \in KeyPaths, value \in UpdateValues :
          call_update(key_path, value) =>
              /\ cfg_ret'.raised = "none"
              /\ get(config'.tree, key_path, None) = value]_vars

\* C26: when the configuration was loaded with SMOLVLM_MODEL_BACKEND=transformers
\* in the environment, get('model.smolvlm.backend') returns 'transformers'.
C26_EnvOverridesDocumentedKey ==
    [][(/\ construct
        /\ config'.state = "loaded"
        /\ \E i \in DOMAIN environ :
               environ[i] = [key |-> SMOLVLM_MODEL_BACKEND, value |-> Text.transformers])
          => get(config'.tree, dotted(<<Text.model, Text.smolvlm, Text.backend>>), None)
                 = Value("str", Text.transformers)]_vars

----------------------------------------------------------------------------
(* calculate_iou and nms *)

\* the interiors of the two boxes have no point in common
Disjoint(b1, b2) ==
    b1.x2 <= b2.x1 \/ b2.x2 <= b1.x1 \/ b1.y2 <= b2.y1 \/ b2.y2 <= b1.y1

\* C23: for well-formed boxes calculate_iou returns a value in [0, 1], 1 for a
\* box and itself, 0 for disjoint boxes, and the same value for the boxes in
\* either order.
C23_IouRange ==
    iou_ret # NoIou =>
        /\ iou_ret.den > 0
        /\ 0 <= iou_ret.num /\ iou_ret.num <= iou_ret.den
        /\ box1 = box2 => iou_ret.num = iou_ret.den
        /\ Disjoint(box1, box2) => iou_ret.num = 0
        /\ LET swapped == calculate_iou(box2, box1)
           IN  iou_ret.num * swapped.den = swapped.num * iou_ret.den

\* calculate_iou has returned 1/3 for two boxes that overlap in part
C23_Witness ==
    /\ iou_ret # NoIou
    /\ box1 # box2
    /\ ~Disjoint(box1, box2)
    /\ iou_ret.num * 3 = iou_ret.den

\* the threshold in effect: the argument when one is passed, else the configured one
InEffect(threshold) == IF threshold.passed THEN threshold.value ELSE threshold.configured

\* C24: the output of nms is a subset of the input, no two of its detections
\* of the same class have IoU >= the threshold in effect, and for every class
\* a detection of the highest confidence of that class is in it.
C24_NmsPostcondition ==
    nms_keep.done =>
        LET keep == nms_keep.keep
        IN  /\ \A i \in DOMAIN keep : \E j \in DOMAIN nms_results : keep[i] = nms_results[j]
            /\ Len(keep) <= Len(nms_results)
            /\ \A i, j \in DOMAIN keep :
                   (i # j /\ keep[i].class_id = keep[j].class_id) =>
                       LET v == calculate_iou(keep[i].bbox, keep[j].bbox)
                       IN  v.num * 100 < InEffect(nms_threshold) * v.den
            /\ \A j \in DOMAIN nms_results :
                   \E i \in DOMAIN keep :
                       /\ keep[i].class_id = nms_results[j].class_id
                       /\ keep[i].confidence >= nms_results[j].confidence

----------------------------------------------------------------------------
(* POST /api/v1/analyze *)

\* C30: an upload whose content type is not an image is answered with status
\* 400 and process_frame is not called for it; status 500 answers only a
\* process_frame call that raised.
C30_InvalidTypeRejected ==
    [][\A content_type \in ContentTypes, readable \in BOOLEAN,
          det \in DetOutcomes, vlm \in VlmOutcomes :
          (call_analyze_image(content_type, readable, det, vlm) /\ anti_drone_system.loaded) =>
              /\ ~startswith(content_type, image_prefix) =>
                     /\ response'.status = 400
                     /\ ~response'.process_frame
                     /\ anti_drone_system' = anti_drone_system
              /\ response'.status = 500 =>
                     /\ response'.process_frame
                     /\ det # "ok" \/ vlm # "ok"]_vars

============================================================================
